---- MODULE Spec2Model ----
(***************************************************************************)
(* A model of the CHIP-8 emulator of this repository: the instruction      *)
(* codec (src/src/instructions.rs and the engine's own copy in             *)
(* src/src/lib.rs), the machine state (Memory, Registers), the execution   *)
(* engine (do_instruction, Emulator::step, Emulator::run), the driver      *)
(* loops of the front ends (src/src/driver.rs, src/src/frontend/), the      *)
(* label assembler (src/chip8cc/src/labels.rs, src/chip8cc/src/main.rs),   *)
(* the mnemonics of instructions.rs and the line assembler                 *)
(* (src/src/bin/assembler.rs).                                             *)
(***************************************************************************)
EXTENDS Integers, Sequences, FiniteSets, TLC

VARIABLES
    phase,      \* "new" after construction, "loaded" after load_rom
    memory,     \* struct Memory: ram, display, keys
    registers,  \* struct Registers: vn, delay, sound, pc, sp, i, key_flag
    panicked,   \* TRUE once an assertion, index or overflow check aborted the program
    steps,      \* number of loop cycles / step calls made so far (bounded by MaxSteps)
    executed,   \* history: the instruction the last do_instruction call decoded
    before,     \* history: memory and registers as the last do_instruction call received them
    earlier,    \* history: executed and (keys apart) before of the call preceding the last one
    calls,      \* history: the Calls not yet returned from (address and sp of each), and
                \* the one the last Ret returned from
    codec,      \* the codec under test: the last conversion applied and its result
    frame_elapsed, \* Emulator::run: the time accumulated in the current frame, in cycles
    event,      \* history: what happened last (kind), the key the front end reported in
                \* that loop cycle (key), and key_flag and the V registers as the cycle
                \* or step found them (flag, vn)
    driver,     \* the front-end driver loop: its mode, its place in the loop, the key
                \* flags and timers of the machine it drives, the calls of the frame
    asm,        \* chip8cc: the source being parsed and the Program built from it
    tool        \* the line assembler: the mnemonic, text or binary it was given and
                \* what it made of it

vars == <<phase, memory, registers, panicked, steps, executed, before, earlier, calls, codec,
          frame_elapsed, event, driver, asm, tool>>

-----------------------------------------------------------------------------
(* Bounds of the model.                                                    *)

\* Number of do_instruction calls explored after the ROM is loaded.
MaxSteps == 4

\* frame_length / cycle_length: the loop cycles that fill one 60 Hz frame at the
\* configured clock speed.
FrameCycles == 2

-----------------------------------------------------------------------------
(* Machine arithmetic: Rust's &, |, ^, << and >> on unsigned integers.     *)

RECURSIVE BitAnd(_, _)
BitAnd(a, b) ==
    IF a = 0 \/ b = 0 THEN 0
    ELSE (a % 2) * (b % 2) + 2 * BitAnd(a \div 2, b \div 2)

RECURSIVE BitOr(_, _)
BitOr(a, b) ==
    IF a = 0 THEN b
    ELSE IF b = 0 THEN a
    ELSE (IF a % 2 = 1 \/ b % 2 = 1 THEN 1 ELSE 0) + 2 * BitOr(a \div 2, b \div 2)

RECURSIVE BitXor(_, _)
BitXor(a, b) ==
    IF a = 0 THEN b
    ELSE IF b = 0 THEN a
    ELSE ((a + b) % 2) + 2 * BitXor(a \div 2, b \div 2)

RECURSIVE Pow2(_)
Pow2(k) == IF k = 0 THEN 1 ELSE 2 * Pow2(k - 1)

\* v << k in a type of the given width: the bits shifted out are lost.
Shl(v, k, width) == (v * Pow2(k)) % Pow2(width)

\* v >> k
Shr(v, k) == v \div Pow2(k)

-----------------------------------------------------------------------------
(* enum Instruction.  Every variant is a record with the same fields; the  *)
(* fields a variant does not carry are 0.  x, y: register operands,        *)
(* n: the immediate (4, 8 or 12 bits, or the address).                     *)

Ins(op, x, y, n) == [op |-> op, x |-> x, y |-> y, n |-> n]

\* executed = NoInstr: no do_instruction call was the last thing that happened
NoInstr == Ins("none", 0, 0, 0)

\* The operand extraction macros X!, Y!, N!, NN!, NNN!
MX(opcode) == Shr(BitAnd(opcode, \h0F00), 8)
MY(opcode) == Shr(BitAnd(opcode, \h00F0), 4)
MN(opcode) == BitAnd(opcode, \h000F)
MNN(opcode) == BitAnd(opcode, \h00FF)
MNNN(opcode) == BitAnd(opcode, \h0FFF)

\* impl From<u16> for Instruction.  The match arms are tried in order; skp and
\* sknp are the names of the two key-skip variants (they differ between
\* instructions.rs and lib.rs, the tables are the same).
DecodeTable(opcode, skp, sknp) ==
    IF opcode = \h00E0 THEN Ins("ClearScreen", 0, 0, 0)
    ELSE IF opcode = \h00EE THEN Ins("Ret", 0, 0, 0)
    ELSE IF opcode \in \h1000..\h1FFF THEN Ins("Jump", 0, 0, MNNN(opcode))
    ELSE IF opcode \in \h2000..\h2FFF THEN Ins("Call", 0, 0, MNNN(opcode))
    ELSE IF opcode \in \h3000..\h3FFF THEN Ins("SkipEqImm", MX(opcode), 0, MNN(opcode))
    ELSE IF opcode \in \h4000..\h4FFF THEN Ins("SkipNeImm", MX(opcode), 0, MNN(opcode))
    ELSE IF opcode \in \h5000..\h5FF0 THEN Ins("SkipEqReg", MX(opcode), MY(opcode), 0)
    ELSE IF opcode \in \h6000..\h6FFF THEN Ins("SetImm", MX(opcode), 0, MNN(opcode))
    ELSE IF opcode \in \h7000..\h7FFF THEN Ins("AddImm", MX(opcode), 0, MNN(opcode))
    ELSE IF opcode \in \h8000..\h8FFF THEN
        CASE BitAnd(opcode, \h000F) = 0 -> Ins("SetReg", MX(opcode), MY(opcode), 0)
          [] BitAnd(opcode, \h000F) = 1 -> Ins("OrReg", MX(opcode), MY(opcode), 0)
          [] BitAnd(opcode, \h000F) = 2 -> Ins("AndReg", MX(opcode), MY(opcode), 0)
          [] BitAnd(opcode, \h000F) = 3 -> Ins("XorReg", MX(opcode), MY(opcode), 0)
          [] BitAnd(opcode, \h000F) = 4 -> Ins("AddReg", MX(opcode), MY(opcode), 0)
          [] BitAnd(opcode, \h000F) = 5 -> Ins("SubReg", MX(opcode), MY(opcode), 0)
          [] BitAnd(opcode, \h000F) = 6 -> Ins("Rsh", MX(opcode), 0, 0)
          [] BitAnd(opcode, \h000F) = 7 -> Ins("SubFrom", MX(opcode), MY(opcode), 0)
          [] BitAnd(opcode, \h000F) = 14 -> Ins("Lsh", MX(opcode), 0, 0)
          [] OTHER -> Ins("Nop", 0, 0, 0)
    ELSE IF opcode \in \h9000..\h9FF0 THEN Ins("SkipNeReg", MX(opcode), MY(opcode), 0)
    ELSE IF opcode \in \hA000..\hAFFF THEN Ins("SetMemPtr", 0, 0, MNNN(opcode))
    ELSE IF opcode \in \hB000..\hBFFF THEN Ins("JumpOffset", 0, 0, MNNN(opcode))
    ELSE IF opcode \in \hC000..\hCFFF THEN Ins("Rand", MX(opcode), 0, MNN(opcode))
    ELSE IF opcode \in \hD000..\hDFFF THEN Ins("Draw", MX(opcode), MY(opcode), MN(opcode))
    ELSE IF opcode \in \hE000..\hEFFF THEN
        CASE MNN(opcode) = \h9E -> Ins(skp, MX(opcode), 0, 0)
          [] MNN(opcode) = \hA1 -> Ins(sknp, MX(opcode), 0, 0)
          [] OTHER -> Ins("Nop", 0, 0, 0)
    ELSE IF opcode \in \hF000..\hFFFF THEN
        CASE MNN(opcode) = \h07 -> Ins("GetDelay", MX(opcode), 0, 0)
          [] MNN(opcode) = \h0A -> Ins("WaitForKey", MX(opcode), 0, 0)
          [] MNN(opcode) = \h15 -> Ins("SetDelay", MX(opcode), 0, 0)
          [] MNN(opcode) = \h18 -> Ins("SetSound", MX(opcode), 0, 0)
          [] MNN(opcode) = \h1E -> Ins("AddMemPtr", MX(opcode), 0, 0)
          [] MNN(opcode) = \h29 -> Ins("SetChar", MX(opcode), 0, 0)
          [] MNN(opcode) = \h33 -> Ins("BCD", MX(opcode), 0, 0)
          [] MNN(opcode) = \h55 -> Ins("RegDump", MX(opcode), 0, 0)
          [] MNN(opcode) = \h65 -> Ins("RegLoad", MX(opcode), 0, 0)
          [] OTHER -> Ins("Nop", 0, 0, 0)
    ELSE Ins("Nop", 0, 0, 0)

\* instructions.rs: impl From<u16> for Instruction
InstructionFromU16(opcode) == DecodeTable(opcode, "SkipKeyPressed", "SkipKeyNotPressed")

\* lib.rs: impl From<u16> for Instruction, the copy the engine of lib.rs fetches with
LibInstructionFromU16(opcode) == DecodeTable(opcode, "SkipKey", "SkipNoKey")

\* The packing macros XNN! and XY! of instructions.rs (operands are cast to u16
\* before they are shifted).
XNN(reg, imm) == BitOr(Shl(reg, 8, 16), imm)

\* XY! with the second register shifted as the first
XY_same_shift(r1, r2) == BitOr(Shl(r1, 8, 16), Shl(r2, 8, 16))

XY(r1, r2) == BitOr(Shl(r1, 8, 16), Shl(r2, 4, 16))

\* instructions.rs: impl From<Instruction> for u16
InstructionToU16(value) ==
    CASE value.op = "Nop" -> \h0000
      [] value.op = "ClearScreen" -> \h00E0
      [] value.op = "Ret" -> \h00EE
      [] value.op = "Jump" -> BitOr(\h1000, value.n)
      [] value.op = "Call" -> BitOr(\h2000, value.n)
      [] value.op = "SkipEqImm" -> BitOr(\h3000, XNN(value.x, value.n))
      [] value.op = "SkipNeImm" -> BitOr(\h4000, XNN(value.x, value.n))
      [] value.op = "SkipEqReg" -> BitOr(\h5000, XY(value.x, value.y))
      [] value.op = "SetImm" -> BitOr(\h6000, XNN(value.x, value.n))
      [] value.op = "AddImm" -> BitOr(\h7000, XNN(value.x, value.n))
      [] value.op = "SetReg" -> BitOr(BitOr(\h8000, XY(value.x, value.y)), 0)
      [] value.op = "OrReg" -> BitOr(BitOr(\h8000, XY(value.x, value.y)), 1)
      [] value.op = "AndReg" -> BitOr(BitOr(\h8000, XY(value.x, value.y)), 2)
      [] value.op = "XorReg" -> BitOr(BitOr(\h8000, XY(value.x, value.y)), 3)
      [] value.op = "AddReg" -> BitOr(BitOr(\h8000, XY(value.x, value.y)), 4)
      [] value.op = "SubReg" -> BitOr(BitOr(\h8000, XY(value.x, value.y)), 5)
      [] value.op = "Rsh" -> BitOr(BitOr(\h8000, XY(value.x, 0)), 6)
      [] value.op = "SubFrom" -> BitOr(BitOr(\h8000, XY(value.x, value.y)), 7)
      [] value.op = "Lsh" -> BitOr(BitOr(\h8000, XY(value.x, 0)), \hE)
      [] value.op = "SkipNeReg" -> BitOr(\h9000, XY(value.x, value.y))
      [] value.op = "SetMemPtr" -> BitOr(\hA000, value.n)
      [] value.op = "JumpOffset" -> BitOr(\hB000, value.n)
      [] value.op = "Rand" -> BitOr(\hC000, XNN(value.x, value.n))
      [] value.op = "Draw" -> BitOr(BitOr(\hD000, XY(value.x, value.y)), value.n)
      [] value.op = "SkipKeyPressed" -> BitOr(\hE09E, XY(value.x, 0))
      [] value.op = "SkipKeyNotPressed" -> BitOr(\hE0A1, XY(value.x, 0))
      [] value.op = "GetDelay" -> BitOr(\hF007, XY(value.x, 0))
      [] value.op = "WaitForKey" -> BitOr(\hF00A, XY(value.x, 0))
      [] value.op = "SetDelay" -> BitOr(\hF015, XY(value.x, 0))
      [] value.op = "SetSound" -> BitOr(\hF018, XY(value.x, 0))
      [] value.op = "AddMemPtr" -> BitOr(\hF01E, XY(value.x, 0))
      [] value.op = "SetChar" -> BitOr(\hF029, XY(value.x, 0))
      [] value.op = "BCD" -> BitOr(\hF033, XY(value.x, 0))
      [] value.op = "RegDump" -> BitOr(\hF055, XY(value.x, 0))
      [] value.op = "RegLoad" -> BitOr(\hF065, XY(value.x, 0))

\* XY! of lib.rs and emulator.rs: the second register is shifted as a u8,
\* before the cast
LibXY(r1, r2) == BitOr(Shl(r1, 8, 16), Shl(r2, 4, 8))

\* lib.rs and emulator.rs: impl From<Instruction> for u16
LibInstructionToU16(value) ==
    CASE value.op = "Nop" -> \h0000
      [] value.op = "ClearScreen" -> \h00E0
      [] value.op = "Ret" -> \h00EE
      [] value.op = "Jump" -> BitOr(\h1000, value.n)
      [] value.op = "Call" -> BitOr(\h2000, value.n)
      [] value.op = "SkipEqImm" -> BitOr(\h3000, XNN(value.x, value.n))
      [] value.op = "SkipNeImm" -> BitOr(\h4000, XNN(value.x, value.n))
      [] value.op = "SkipEqReg" -> BitOr(\h5000, LibXY(value.x, value.y))
      [] value.op = "SetImm" -> BitOr(\h6000, XNN(value.x, value.n))
      [] value.op = "AddImm" -> BitOr(\h7000, XNN(value.x, value.n))
      [] value.op = "SetReg" -> BitOr(BitOr(\h8000, LibXY(value.x, value.y)), 0)
      [] value.op = "OrReg" -> BitOr(BitOr(\h8000, LibXY(value.x, value.y)), 1)
      [] value.op = "AndReg" -> BitOr(BitOr(\h8000, LibXY(value.x, value.y)), 2)
      [] value.op = "XorReg" -> BitOr(BitOr(\h8000, LibXY(value.x, value.y)), 3)
      [] value.op = "AddReg" -> BitOr(BitOr(\h8000, LibXY(value.x, value.y)), 4)
      [] value.op = "SubReg" -> BitOr(BitOr(\h8000, LibXY(value.x, value.y)), 5)
      [] value.op = "Rsh" -> BitOr(BitOr(\h8000, LibXY(value.x, 0)), 6)
      [] value.op = "SubFrom" -> BitOr(BitOr(\h8000, LibXY(value.x, value.y)), 7)
      [] value.op = "Lsh" -> BitOr(BitOr(\h8000, LibXY(value.x, 0)), \hE)
      [] value.op = "SkipNeReg" -> BitOr(\h9000, LibXY(value.x, value.y))
      [] value.op = "SetMemPtr" -> BitOr(\hA000, value.n)
      [] value.op = "JumpOffset" -> BitOr(\hB000, value.n)
      [] value.op = "Rand" -> BitOr(\hC000, XNN(value.x, value.n))
      [] value.op = "Draw" -> BitOr(BitOr(\hD000, LibXY(value.x, value.y)), value.n)
      [] value.op = "SkipKey" -> BitOr(\hE09E, LibXY(value.x, 0))
      [] value.op = "SkipNoKey" -> BitOr(\hE0A1, LibXY(value.x, 0))
      [] value.op = "GetDelay" -> BitOr(\hF007, LibXY(value.x, 0))
      [] value.op = "WaitForKey" -> BitOr(\hF009, LibXY(value.x, 0))
      [] value.op = "SetDelay" -> BitOr(\hF015, LibXY(value.x, 0))
      [] value.op = "SetSound" -> BitOr(\hF018, LibXY(value.x, 0))
      [] value.op = "AddMemPtr" -> BitOr(\hF01E, LibXY(value.x, 0))
      [] value.op = "SetChar" -> BitOr(\hF029, LibXY(value.x, 0))
      [] value.op = "BCD" -> BitOr(\hF033, LibXY(value.x, 0))
      [] value.op = "RegDump" -> BitOr(\hF055, LibXY(value.x, 0))
      [] value.op = "RegLoad" -> BitOr(\hF065, LibXY(value.x, 0))

-----------------------------------------------------------------------------
(* Machine state: struct Memory and struct Registers of lib.rs.            *)

CHAR_SPRITES == <<
    \hf0, \h90, \h80, \h90, \hf0,
    \h20, \h60, \h20, \h20, \h70,
    \hf0, \h10, \hf0, \h80, \hf0,
    \hf0, \h10, \hf0, \h10, \hf0,
    \h90, \h90, \hf0, \h10, \h10,
    \hf0, \h80, \hf0, \h10, \hf0,
    \hf0, \h80, \hf0, \h90, \hf0,
    \hf0, \h10, \h20, \h40, \h40,
    \hf0, \h90, \hf0, \h90, \hf0,
    \hf0, \h90, \hf0, \h10, \hf0,
    \hf0, \h90, \hf0, \h90, \h90,
    \he0, \h90, \he0, \h90, \he0,
    \hf0, \h80, \h80, \h80, \hf0,
    \he0, \h90, \h90, \h90, \he0,
    \hf0, \h80, \hf0, \h80, \hf0,
    \hf0, \h80, \hf0, \h80, \h80 >>

DISPLAY_ROWS == 64
DISPLAY_COLUMNS == 32
RAM_SIZE == 4096
INSTRUCTION_SIZE == 2

\* The ram array is kept as the bytes written since construction (a function on
\* the written addresses) over the image Memory::default() builds: the glyphs
\* at 0..79 and zero elsewhere.
DefaultByte(addr) == IF addr < Len(CHAR_SPRITES) THEN CHAR_SPRITES[addr + 1] ELSE 0

RamGet(ram, addr) == IF addr \in DOMAIN ram THEN ram[addr] ELSE DefaultByte(addr)

RamSet(ram, addr, byte) == (addr :> byte) @@ ram

\* impl Default for Memory: display is the set of lit cells of the
\* [bool; 64 * 32] array, keys the set of pressed keys.
MemoryDefault == [ram |-> <<>>, display |-> {}, keys |-> {}]

\* impl Default for Registers.  key_flag: <<>> is None, <<r>> is Some(r).
RegistersDefault ==
    [vn |-> [r \in 0..15 |-> 0], delay |-> 0, sound |-> 0,
     pc |-> \h200, sp |-> \h1ff, i |-> 0, key_flag |-> <<>>]

\* Memory::load_rom: ram[0x200..0x200 + rom.len()].copy_from_slice(rom)
RECURSIVE CopyToRam(_, _, _)
CopyToRam(ram, addr, bytes) ==
    IF bytes = <<>> THEN ram
    ELSE CopyToRam(RamSet(ram, addr, Head(bytes)), addr + 1, Tail(bytes))

load_rom(mem, rom) == [mem EXCEPT !.ram = CopyToRam(mem.ram, \h200, rom)]
-----------------------------------------------------------------------------
(* The execution engine of lib.rs.                                         *)

\* get_bit: mask = 1 << 7-index; masked_char = char & mask;
\* (masked_char >> index) != 0
get_bit(char, index) ==
    LET mask == Shl(1, 7 - index, 8)
        masked_char == BitAnd(char, mask)
    IN  Shr(masked_char, index) # 0

\* index!(row, col) of lib.rs: row * DISPLAY_COLUMNS + col
index(row, col) == row * DISPLAY_COLUMNS + col

\* Memory::set_row: for i in 0..8 { display[index!(x, y+i)] = get_bit(row, i) }.
\* The cells are assigned in order; the first cell outside the array aborts the
\* program, the cells before it stay assigned.
set_row(display, x, y, row) ==
    LET inside == {i \in 0..7 : index(x, y + i) < DISPLAY_ROWS * DISPLAY_COLUMNS}
        done == {i \in inside : \A j \in 0..i : j \in inside}
    IN  [display |-> (display \ {index(x, y + i) : i \in done})
                        \cup {index(x, y + i) : i \in {j \in done : get_bit(row, j)}},
         panic |-> done # 0..7]

\* The loop of the Draw arm: for count in 0..n { addr = i + count;
\* sprite_row = ram[addr]; set_row(x + count, y, sprite_row) }
RECURSIVE draw_rows(_, _, _, _, _, _)
draw_rows(mem, i, x, y, n, count) ==
    IF count >= n THEN [memory |-> mem, panic |-> FALSE]
    ELSE IF i + count >= RAM_SIZE THEN [memory |-> mem, panic |-> TRUE]
    ELSE LET row == set_row(mem.display, x + count, y, RamGet(mem.ram, i + count))
             next == [mem EXCEPT !.display = row.display]
         IN  IF row.panic THEN [memory |-> next, panic |-> TRUE]
             ELSE draw_rows(next, i, x, y, n, count + 1)

\* get_instruction: the big-endian word at ram[pc], ram[pc + 1], decoded.
\* Reading past the end of ram aborts the program.
fetch_ok(regs) == regs.pc >= 0 /\ regs.pc + 1 < RAM_SIZE

get_instruction(mem, regs) ==
    LET upper == RamGet(mem.ram, regs.pc)
        lower == RamGet(mem.ram, regs.pc + 1)
    IN  LibInstructionFromU16(BitOr(Shl(upper, 8, 16), lower))

add_with_overflow(a, b) ==
    LET larger == IF a > b THEN a ELSE b
        smaller == IF larger = a THEN b ELSE a
    IN  IF larger + smaller <= 255 THEN <<larger + smaller, FALSE>>
        ELSE <<smaller - (255 - larger) - 1, TRUE>>

subtract_with_underflow(a, b) ==
    IF b > a THEN <<255 - b + a, FALSE>> ELSE <<a - b, TRUE>>

\* `flag as u8`
BoolU8(flag) == IF flag THEN 1 ELSE 0

\* One outcome of the match of do_instruction
Out(mem, regs, panic) == [memory |-> mem, registers |-> regs, panic |-> panic]

\* A usize index is inside ram.  A usize that wrapped below zero is kept as the
\* negative number congruent to it modulo 2^64; as an index it is far outside.
InRam(addr) == addr >= 0 /\ addr < RAM_SIZE

\* The Call arm pushing the address of the instruction after the Call
exec_call_pushing_next(mem, regs, addr, wrap) ==
    IF regs.sp - 1 < 0 \/ ~InRam(regs.sp) THEN Out(mem, regs, TRUE)
    ELSE LET pc16 == (regs.pc + INSTRUCTION_SIZE) % 65536
             ram2 == RamSet(RamSet(mem.ram, regs.sp - 1, pc16 \div 256), regs.sp, pc16 % 256)
             mem2 == [mem EXCEPT !.ram = ram2]
         IN  IF regs.sp - 2 < 0 /\ ~wrap THEN Out(mem2, regs, TRUE)
             ELSE Out(mem2, [regs EXCEPT !.sp = regs.sp - 2, !.pc = addr], FALSE)

\* The Call arm.  sp - 1 and sp -= 2 are usize subtractions: below zero they
\* abort a build with overflow checks and wrap in a build without (wrap).
exec_call(mem, regs, addr, wrap) ==
    IF regs.sp - 1 < 0 \/ ~InRam(regs.sp) THEN Out(mem, regs, TRUE)
    ELSE LET pc16 == regs.pc % 65536
             ram2 == RamSet(RamSet(mem.ram, regs.sp - 1, pc16 \div 256), regs.sp, pc16 % 256)
             mem2 == [mem EXCEPT !.ram = ram2]
         IN  IF regs.sp - 2 < 0 /\ ~wrap THEN Out(mem2, regs, TRUE)
             ELSE Out(mem2, [regs EXCEPT !.sp = regs.sp - 2, !.pc = addr], FALSE)

\* The Ret arm: sp += 2, then pc is read from ram[sp-1..=sp].
exec_ret(mem, regs) ==
    LET sp2 == regs.sp + 2
        regs2 == [regs EXCEPT !.sp = sp2]
    IN  IF sp2 - 1 < 0 \/ ~InRam(sp2) THEN Out(mem, regs2, TRUE)
        ELSE Out(mem, [regs2 EXCEPT !.pc = RamGet(mem.ram, sp2 - 1) * 256 + RamGet(mem.ram, sp2)], FALSE)

\* The skip arms: pc += INSTRUCTION_SIZE when the condition holds
exec_skip(mem, regs, cond) ==
    Out(mem, IF cond THEN [regs EXCEPT !.pc = regs.pc + INSTRUCTION_SIZE] ELSE regs, FALSE)

\* The AddReg arm: VF is assigned first, Vx second.
exec_add_reg(mem, regs, vx, vy) ==
    LET res == add_with_overflow(regs.vn[vx], regs.vn[vy])
        vn1 == [regs.vn EXCEPT ![15] = BoolU8(res[2])]
        vn2 == [vn1 EXCEPT ![vx] = res[1]]
    IN  Out(mem, [regs EXCEPT !.vn = vn2], FALSE)

\* The SubReg arm: Vx is assigned first, VF second.
exec_sub_reg(mem, regs, vx, vy) ==
    LET res == subtract_with_underflow(regs.vn[vx], regs.vn[vy])
        vn1 == [regs.vn EXCEPT ![vx] = res[1]]
        vn2 == [vn1 EXCEPT ![15] = BoolU8(res[2])]
    IN  Out(mem, [regs EXCEPT !.vn = vn2], FALSE)

\* The SubFrom arm: subtract_with_underflow(vy, vx) is called with the operands
\* of the instruction.
exec_sub_from(mem, regs, vx, vy) ==
    LET res == subtract_with_underflow(vy, vx)
        vn1 == [regs.vn EXCEPT ![vx] = res[1]]
        vn2 == [vn1 EXCEPT ![15] = BoolU8(res[2])]
    IN  Out(mem, [regs EXCEPT !.vn = vn2], FALSE)

\* The Rsh arm: vn[15] = vn[r1] & 0x0001; vn[r1] >>= 1
exec_rsh(mem, regs, r1) ==
    LET vn1 == [regs.vn EXCEPT ![15] = BitAnd(regs.vn[r1], 1)]
        vn2 == [vn1 EXCEPT ![r1] = Shr(vn1[r1], 1)]
    IN  Out(mem, [regs EXCEPT !.vn = vn2], FALSE)

\* The Lsh arm: vn[15] = vn[r1] & (1<<7); vn[r1] <<= 1
exec_lsh(mem, regs, r1) ==
    LET vn1 == [regs.vn EXCEPT ![15] = BitAnd(regs.vn[r1], Shl(1, 7, 8))]
        vn2 == [vn1 EXCEPT ![r1] = Shl(vn1[r1], 1, 8)]
    IN  Out(mem, [regs EXCEPT !.vn = vn2], FALSE)

\* The Draw arm
exec_draw(mem, regs, vx, vy, n) ==
    LET x == regs.vn[vx]
        y == regs.vn[vy]
    IN  IF ~(x < DISPLAY_ROWS) \/ ~(y < DISPLAY_COLUMNS) THEN Out(mem, regs, TRUE)
        ELSE LET d == draw_rows(mem, regs.i, x, y, n, 0)
             IN  Out(d.memory, regs, d.panic)

\* The BCD arm: three indexed stores; the first one outside ram aborts.
exec_bcd(mem, regs, reg) ==
    LET val == regs.vn[reg]
        ones == val % 10
        tens == (val % 100) - ones
        hundreds == val - tens - ones
        ram1 == RamSet(mem.ram, regs.i, hundreds)
        ram2 == RamSet(ram1, regs.i + 1, tens)
        ram3 == RamSet(ram2, regs.i + 2, ones)
    IN  IF ~InRam(regs.i) THEN Out(mem, regs, TRUE)
        ELSE IF ~InRam(regs.i + 1) THEN Out([mem EXCEPT !.ram = ram1], regs, TRUE)
        ELSE IF ~InRam(regs.i + 2) THEN Out([mem EXCEPT !.ram = ram2], regs, TRUE)
        ELSE Out([mem EXCEPT !.ram = ram3], regs, FALSE)

\* The RegDump arm: ram[i..i + reg].copy_from_slice(&vn[0..reg])
exec_reg_dump(mem, regs, reg) ==
    IF regs.i + reg > RAM_SIZE THEN Out(mem, regs, TRUE)
    ELSE Out([mem EXCEPT !.ram = CopyToRam(mem.ram, regs.i, [k \in 1..reg |-> regs.vn[k - 1]])],
             regs, FALSE)

\* The RegLoad arm: vn[0..vx].copy_from_slice(&ram[i..i + vx])
exec_reg_load(mem, regs, vx) ==
    IF regs.i + vx > RAM_SIZE THEN Out(mem, regs, TRUE)
    ELSE Out(mem, [regs EXCEPT !.vn = [r \in 0..15 |->
                 IF r < vx THEN RamGet(mem.ram, regs.i + r) ELSE regs.vn[r]]], FALSE)

\* The match of do_instruction.  rnd is the byte rand::random::<u8>() returns.
exec(ins, mem, regs, rnd, wrap) ==
    LET vn == regs.vn
        SetV(r, val) == Out(mem, [regs EXCEPT !.vn[r] = val], FALSE)
    IN
    CASE ins.op = "Nop" -> Out(mem, regs, FALSE)
      [] ins.op = "Jump" -> Out(mem, [regs EXCEPT !.pc = ins.n], FALSE)
      [] ins.op = "Call" -> exec_call(mem, regs, ins.n, wrap)
      [] ins.op = "Ret" -> exec_ret(mem, regs)
      [] ins.op = "SkipEqImm" -> exec_skip(mem, regs, vn[ins.x] = ins.n)
      [] ins.op = "SkipNeImm" -> exec_skip(mem, regs, vn[ins.x] # ins.n)
      [] ins.op = "SkipEqReg" -> exec_skip(mem, regs, vn[ins.x] = vn[ins.y])
      [] ins.op = "SkipNeReg" -> exec_skip(mem, regs, vn[ins.x] # vn[ins.y])
      [] ins.op = "SetImm" -> SetV(ins.x, ins.n)
      [] ins.op = "AddImm" -> SetV(ins.x, add_with_overflow(vn[ins.x], ins.n)[1])
      [] ins.op = "AddReg" -> exec_add_reg(mem, regs, ins.x, ins.y)
      [] ins.op = "SubReg" -> exec_sub_reg(mem, regs, ins.x, ins.y)
      [] ins.op = "SubFrom" -> exec_sub_from(mem, regs, ins.x, ins.y)
      [] ins.op = "ClearScreen" -> Out([mem EXCEPT !.display = {}], regs, FALSE)
      [] ins.op = "Draw" -> exec_draw(mem, regs, ins.x, ins.y, ins.n)
      [] ins.op = "SetChar" ->
            IF ~(vn[ins.x] < 16) THEN Out(mem, regs, TRUE)
            ELSE Out(mem, [regs EXCEPT !.i = vn[ins.x] * 5], FALSE)
      [] ins.op = "SetMemPtr" -> Out(mem, [regs EXCEPT !.i = ins.n], FALSE)
      [] ins.op = "WaitForKey" -> Out(mem, [regs EXCEPT !.key_flag = <<ins.x>>], FALSE)
      [] ins.op = "SetReg" -> SetV(ins.x, vn[ins.y])
      [] ins.op = "OrReg" -> SetV(ins.x, BitOr(vn[ins.x], vn[ins.y]))
      [] ins.op = "AndReg" -> SetV(ins.x, BitAnd(vn[ins.x], vn[ins.y]))
      [] ins.op = "XorReg" -> SetV(ins.x, BitXor(vn[ins.x], vn[ins.y]))
      [] ins.op = "Rsh" -> exec_rsh(mem, regs, ins.x)
      [] ins.op = "Lsh" -> exec_lsh(mem, regs, ins.x)
      [] ins.op = "JumpOffset" -> Out(mem, [regs EXCEPT !.pc = (vn[0] + ins.n) % 65536], FALSE)
      [] ins.op = "Rand" -> SetV(ins.x, BitAnd(rnd, ins.n))
      [] ins.op = "SkipKey" ->
            IF ~(vn[ins.x] < 16) THEN Out(mem, regs, TRUE)
            ELSE exec_skip(mem, regs, vn[ins.x] \in mem.keys)
      [] ins.op = "SkipNoKey" ->
            IF ~(vn[ins.x] < 16) THEN Out(mem, regs, TRUE)
            ELSE exec_skip(mem, regs, vn[ins.x] \notin mem.keys)
      [] ins.op = "GetDelay" -> SetV(ins.x, regs.delay)
      [] ins.op = "SetDelay" -> Out(mem, [regs EXCEPT !.delay = vn[ins.x]], FALSE)
      [] ins.op = "SetSound" -> Out(mem, [regs EXCEPT !.sound = vn[ins.x]], FALSE)
      [] ins.op = "AddMemPtr" -> Out(mem, [regs EXCEPT !.i = regs.i + vn[ins.x]], FALSE)
      [] ins.op = "BCD" -> exec_bcd(mem, regs, ins.x)
      [] ins.op = "RegDump" -> exec_reg_dump(mem, regs, ins.x)
      [] ins.op = "RegLoad" -> exec_reg_load(mem, regs, ins.x)

\* advance_pc with JumpOffset left out of the instructions that set pc themselves
advance_pc_after_indexed_jump(ins, regs) ==
    IF ins.op \in {"Jump", "Call", "Ret"} THEN regs
    ELSE [regs EXCEPT !.pc = regs.pc + INSTRUCTION_SIZE]

\* The trailing `if !matches!(instruction, Jump | JumpOffset | Call | Ret)
\* { pc += INSTRUCTION_SIZE }`
advance_pc(ins, regs) ==
    IF ins.op \in {"Jump", "JumpOffset", "Call", "Ret"} THEN regs
    ELSE [regs EXCEPT !.pc = regs.pc + INSTRUCTION_SIZE]

\* do_instruction(memory, registers)
do_instruction(mem, regs, rnd, wrap) ==
    IF ~fetch_ok(regs) THEN Out(mem, regs, TRUE)
    ELSE LET ins == CHOOSE d \in {get_instruction(mem, regs)} : TRUE
             res == CHOOSE r \in {exec(ins, mem, regs, rnd, wrap)} : TRUE
         IN  IF res.panic THEN res
             ELSE Out(res.memory, advance_pc(ins, res.registers), FALSE)
-----------------------------------------------------------------------------
(* Inputs: the ROMs loaded, the keys the front end reports, the bytes the  *)
(* random generator returns.                                               *)

\* The two bytes of a 16-bit word, big-endian, and the bytes of a list of words
RECURSIVE RomOf(_)
RomOf(words) ==
    IF words = <<>> THEN <<>>
    ELSE <<Head(words) \div 256, Head(words) % 256>> \o RomOf(Tail(words))

\* The word with nibbles c, x, y, n
W(c, x, y, n) == c * 4096 + x * 256 + y * 16 + n

RegSelX == {0, 1, 15}
RegSelY == {1, 15}
ByteSelX == {0, 1, 128, 255}
ByteSelY == {1, 127, 128}
KeySel == {1}
RandSel == {\h35, \hFF}

\* The instruction words under test for registers x and y: every opcode
\* pattern, and words outside the patterns.
SubjectWords(x, y) ==
    {\h0000, \h00E0, \h1208, \hA003, \hB206}
    \cup {W(3, x, 0, 1), W(4, x, 0, 1), W(5, x, y, 0), W(5, x, y, 1), W(9, x, y, 0),
          W(7, x, 0, 1), W(7, x, \hF, \hF), W(12, x, \hF, \hF), W(13, x, y, 1), W(13, x, y, 2)}
    \cup {W(8, x, y, n) : n \in {0, 1, 2, 3, 4, 5, 6, 7, 8, 14}}
    \cup {W(14, x, 9, 14), W(14, x, 10, 1), W(14, x, 0, 0)}
    \cup {W(15, x, lo \div 16, lo % 16) :
            lo \in {\h07, \h0A, \h15, \h18, \h1E, \h29, \h33, \h55, \h65, \h00}}

\* Set Vx and Vy, then the word under test twice
SubjectPrograms ==
    UNION {{<<W(6, x, a \div 16, a % 16), W(6, y, b \div 16, b % 16), w, w>> :
                w \in SubjectWords(x, y)} :
            <<x, y, a, b>> \in RegSelX \X RegSelY \X ByteSelX \X ByteSelY}

\* Jumps, calls and returns: the ROMs of test_jump and test_call_ret, a Ret with
\* no Call outstanding, nested calls, a call to itself, jumps to the last word
\* and to the last byte of ram, an indexed jump past the end of ram, a Call
\* after a Ret with no Call outstanding.
ControlPrograms ==
    { <<\h1204, \h0000, \h1200>>,
      <<\h2204, \h0000, \h00EE>>,
      <<\h00EE>>,
      <<\h2204, \h0000, \h2208, \h0000, \h00EE>>,
      <<\h2206, \h0000, \h0000, \h2208, \h00EE>>,
      <<\h2200>>,
      <<\h1FFE>>,
      <<\h1FFF>>,
      <<\h6080, \hBFFF>>,
      <<\h0204, \h00EE, \h0000, \h2200>> }

\* Timers and the key wait: the timers are set, then a key is waited for
TimerPrograms ==
    { <<\h6003, \hF015, \hF018, \hF10A>>,
      <<\h6002, \hF015, \hF00A, \hF107>> }
    \cup {<<W(6, 0, 0, d), \hF015, W(6, 1, 0, s), \hF118, \hF20A>> : d \in 0..2, s \in 0..2}

\* Sprites kept in the ROM itself, with set bits in the low half of a byte:
\* I is pointed at the bytes 0x0F, 0xFF after the code and they are drawn
SpritePrograms ==
    { <<\hA204, \hD002, \h0FFF>>,
      <<\hA205, \hD001, \h0FFF>> }

\* ROMs built with the encoder of the engine: the word of WaitForKey(x)
EncodedPrograms == {<<LibInstructionToU16(Ins("WaitForKey", x, 0, 0))>> : x \in RegSelX}

Programs ==
    SubjectPrograms \cup ControlPrograms \cup TimerPrograms \cup SpritePrograms
        \cup EncodedPrograms
-----------------------------------------------------------------------------
(* The specification of the engine.                                        *)

Snapshot(mem, regs) == [memory |-> mem, registers |-> regs]

\* What is kept of the call before the last: its instruction and the registers,
\* ram and display it received
Earlier(ins, snap) ==
    [executed |-> ins, registers |-> snap.registers,
     ram |-> snap.memory.ram, display |-> snap.memory.display]

NoEarlier == Earlier(NoInstr, Snapshot(MemoryDefault, RegistersDefault))

\* event of a state nothing has happened in yet; key and flag are Options
NoEvent == [kind |-> "none", key |-> <<>>, flag |-> <<>>, vn |-> RegistersDefault.vn]

\* No driver has been constructed; Option fields are <<>> or <<value>>
DriverOff ==
    [kind |-> "none", mode |-> "Paused", pos |-> "off", keys |-> {}, delay |-> 0, sound |-> 0,
     cycle |-> 0, passes |-> 0, log |-> <<>>]

\* No source has been handed to parse_program
AsmIdle ==
    [status |-> "idle", source |-> <<>>, pos |-> 0,
     instructions |-> <<>>, labels |-> <<>>, references |-> <<>>,
     fault |-> "", bytes |-> <<>>, unfixed |-> <<>>, runs |-> 0]

\* The line assembler has been given nothing
ToolIdle ==
    [op |-> "none", ins |-> NoInstr, text |-> <<>>,
     result |-> [res |-> "none", ins |-> NoInstr, mnemonic |-> <<>>, message |-> ""],
     lines |-> <<>>,
     binary |-> [res |-> "none", words |-> <<>>, mnemonic |-> <<>>, message |-> "",
                 line_number |-> 0],
     input |-> <<>>, created |-> FALSE, written |-> <<>>, reported |-> 0]

CodecIdle == [op |-> "none", inWord |-> 0, inIns |-> NoInstr, outWord |-> 0, outIns |-> NoInstr]

\* Emulator::windowed(): Memory::default(), Registers::default()
Init ==
    /\ phase = "new"
    /\ memory = MemoryDefault
    /\ registers = RegistersDefault
    /\ panicked = FALSE
    /\ steps = 0
    /\ executed = NoInstr
    /\ before = Snapshot(MemoryDefault, RegistersDefault)
    /\ earlier = NoEarlier
    /\ calls = [open |-> <<>>, matched |-> <<>>]
    /\ codec = CodecIdle
    /\ frame_elapsed = 0
    /\ event = NoEvent
    /\ driver = DriverOff
    /\ asm = AsmIdle
    /\ tool = ToolIdle

\* Emulator::load_rom / Memory::load_rom, with a ROM of the set roms
LoadRomFrom(roms) ==
    /\ phase = "new"
    /\ \E words \in roms : memory' = load_rom(memory, RomOf(words))
    /\ phase' = "loaded"
    /\ UNCHANGED <<registers, panicked, steps, executed, before, earlier, calls, codec,
                   frame_elapsed, event, driver, asm, tool>>

LoadRom == LoadRomFrom(Programs)

\* A ROM that sets the timers and waits for a key is loaded
LoadTimerRom == LoadRomFrom(TimerPrograms)

\* The history of Calls and Rets kept beside a do_instruction call
CallsAfter(ins, regs, panic) ==
    IF panic THEN [calls EXCEPT !.matched = <<>>]
    ELSE IF ins.op = "Call"
        THEN [open |-> <<[at |-> regs.pc, sp |-> regs.sp]>> \o calls.open, matched |-> <<>>]
    ELSE IF ins.op = "Ret" /\ calls.open # <<>>
        THEN [open |-> Tail(calls.open), matched |-> <<Head(calls.open)>>]
    ELSE [calls EXCEPT !.matched = <<>>]

\* A call of do_instruction on mem and regs, and the history of it
Execute(mem0, regs0) ==
    \E mem \in {mem0}, regs \in {regs0} :
    \E ins \in {IF fetch_ok(regs) THEN get_instruction(mem, regs) ELSE NoInstr} :
    \E rnd \in IF ins.op = "Rand" THEN RandSel ELSE {0},
       wrap \in IF ins.op = "Call" /\ regs.sp < 2 THEN BOOLEAN ELSE {FALSE} :
    \E res \in {do_instruction(mem, regs, rnd, wrap)} :
        /\ memory' = res.memory
        /\ registers' = res.registers
        /\ panicked' = res.panic
        /\ executed' = ins
        /\ before' = Snapshot(mem, regs)
        /\ earlier' = Earlier(executed, before)
        /\ calls' = CallsAfter(ins, regs, res.panic)

\* Emulator::step, and the loop of main.rs: a bare do_instruction call
Step ==
    /\ phase = "loaded"
    /\ ~panicked
    /\ steps < MaxSteps
    /\ steps' = steps + 1
    /\ Execute(memory, registers)
    /\ event' = [kind |-> "step", key |-> <<>>, flag |-> registers.key_flag, vn |-> registers.vn]
    /\ UNCHANGED <<phase, codec, frame_elapsed, driver, asm, tool>>

\* tick_timers with the timers lowered whether or not they are zero
tick_timers_unchecked(regs) ==
    [regs EXCEPT !.delay = (regs.delay - 1) % 256,
                 !.sound = (regs.sound - 1) % 256]

\* The timer tick at the end of a frame of Emulator::run:
\* if delay > 0 { delay -= 1 }; if sound > 0 { sound -= 1 }
tick_timers(regs) ==
    [regs EXCEPT !.delay = IF regs.delay > 0 THEN regs.delay - 1 ELSE regs.delay,
                 !.sound = IF regs.sound > 0 THEN regs.sound - 1 ELSE regs.sound]

\* The registers with the key wait kept as it is
keep_key_flag(regs) == regs

\* The key wait is ended: self.registers.key_flag = None
clear_key_flag(regs) == [regs EXCEPT !.key_flag = <<>>]

\* One cycle of the inner loop of Emulator::run (while frame_elapsed <
\* frame_length): the keys are cleared, the key the front end reports (input:
\* <<>> for None, <<k>> for Some(k)) is set and clears key_flag; with no key and
\* key_flag set the cycle ends there (continue: nothing is added to
\* frame_elapsed), otherwise do_instruction runs and the time of the cycle is
\* added to frame_elapsed.
RunCycle(input) ==
    /\ phase = "loaded"
    /\ ~panicked
    /\ frame_elapsed < FrameCycles
    /\ event' = [kind |-> "cycle", key |-> input, flag |-> registers.key_flag, vn |-> registers.vn]
    /\ IF input = <<>> /\ registers.key_flag # <<>>
       THEN /\ memory' = [memory EXCEPT !.keys = {}]
            /\ executed' = NoInstr
            /\ earlier' = Earlier(executed, before)
            /\ before' = Snapshot(memory', registers)
            /\ calls' = [calls EXCEPT !.matched = <<>>]
            /\ UNCHANGED <<registers, panicked, steps, frame_elapsed>>
       ELSE /\ steps < MaxSteps
            /\ steps' = steps + 1
            /\ frame_elapsed' = frame_elapsed + 1
            /\ IF input # <<>>
               THEN Execute([memory EXCEPT !.keys = {input[1]}],
                            clear_key_flag(registers))
               ELSE Execute([memory EXCEPT !.keys = {}], registers)
    /\ UNCHANGED <<phase, codec, driver, asm, tool>>

\* A cycle in which the front end reports no key
RunCycleNoKey == RunCycle(<<>>)

\* A cycle in which the front end reports a key
RunCycleKey == \E k \in KeySel : RunCycle(<<k>>)

\* The end of a frame of Emulator::run: the inner loop has ended, the timers
\* are ticked and the display is handed to the front end.
FrameEnd ==
    /\ phase = "loaded"
    /\ ~panicked
    /\ ~(frame_elapsed < FrameCycles)
    /\ registers' = tick_timers(registers)
    /\ frame_elapsed' = 0
    /\ event' = [kind |-> "tick", key |-> <<>>, flag |-> registers.key_flag, vn |-> registers.vn]
    /\ executed' = NoInstr
    /\ earlier' = Earlier(executed, before)
    /\ before' = Snapshot(memory, registers)
    /\ calls' = [calls EXCEPT !.matched = <<>>]
    /\ UNCHANGED <<phase, memory, panicked, steps, codec, driver, asm, tool>>

Next == LoadRom \/ Step \/ RunCycleNoKey \/ RunCycleKey \/ FrameEnd

Spec == Init /\ [][Next]_vars

\* Emulator::run alone, as the thread runs it: while the engine waits for a key
\* the loop goes on iterating, and a frame that has ended is followed by its
\* tick.  When a key is pressed is up to the user.
RunNext == LoadTimerRom \/ RunCycleNoKey \/ RunCycleKey \/ FrameEnd

\* A cycle in which no key is reported while the engine waits for one
RunCycleBlocked == registers.key_flag # <<>> /\ RunCycle(<<>>)

RunSpec == Init /\ [][RunNext]_vars /\ WF_vars(RunCycleBlocked) /\ WF_vars(FrameEnd)
-----------------------------------------------------------------------------
(* The specification of the codec of instructions.rs: words are decoded,   *)
(* instructions encoded, and the result of either converted back.          *)

\* The words decoded: every opcode class and every low byte, for three X
CodecWords == {c * 4096 + x * 256 + lo : c \in 0..15, x \in {0, 1, 15}, lo \in 0..255}

CodecRegs == {0, 1, 7, 15}
CodecN == {0, 1, 15}
CodecNN == {0, 1, 128, 255}
CodecNNN == {0, 1, \h200, \hFFF}

\* The instructions encoded: every variant, with operands inside their fields
CodecInstructions ==
    {Ins(op, 0, 0, 0) : op \in {"Nop", "ClearScreen", "Ret"}}
    \cup {Ins(op, 0, 0, n) : op \in {"Jump", "Call", "SetMemPtr", "JumpOffset"}, n \in CodecNNN}
    \cup {Ins(op, x, 0, n) : op \in {"SkipEqImm", "SkipNeImm", "SetImm", "AddImm", "Rand"},
                              x \in CodecRegs, n \in CodecNN}
    \cup {Ins(op, x, y, 0) : op \in {"SkipEqReg", "SkipNeReg", "SetReg", "OrReg", "AndReg",
                                      "XorReg", "AddReg", "SubReg", "SubFrom"},
                              x \in CodecRegs, y \in CodecRegs}
    \cup {Ins("Draw", x, y, n) : x \in CodecRegs, y \in CodecRegs, n \in CodecN}
    \cup {Ins(op, x, 0, 0) : op \in {"Rsh", "Lsh", "SkipKeyPressed", "SkipKeyNotPressed",
                                      "GetDelay", "WaitForKey", "SetDelay", "SetSound",
                                      "AddMemPtr", "SetChar", "BCD", "RegDump", "RegLoad"},
                              x \in CodecRegs}

\* u16::into(): a word is decoded
Decode ==
    /\ codec.op = "none"
    /\ \E w \in CodecWords :
        codec' = [op |-> "decode", inWord |-> w, inIns |-> NoInstr,
                  outWord |-> 0, outIns |-> InstructionFromU16(w)]
    /\ UNCHANGED <<phase, memory, registers, panicked, steps, executed, before, earlier, calls,
                   frame_elapsed, event, driver, asm, tool>>

\* Instruction::into(): an instruction is encoded
Encode ==
    /\ codec.op = "none"
    /\ \E i \in CodecInstructions :
        codec' = [op |-> "encode", inWord |-> 0, inIns |-> i,
                  outWord |-> InstructionToU16(i), outIns |-> NoInstr]
    /\ UNCHANGED <<phase, memory, registers, panicked, steps, executed, before, earlier, calls,
                   frame_elapsed, event, driver, asm, tool>>

\* The word an instruction was encoded to is decoded
DecodeEncoded ==
    /\ codec.op = "encode"
    /\ codec' = [codec EXCEPT !.op = "encode_decode", !.outIns = InstructionFromU16(codec.outWord)]
    /\ UNCHANGED <<phase, memory, registers, panicked, steps, executed, before, earlier, calls,
                   frame_elapsed, event, driver, asm, tool>>

\* The instruction a word was decoded to is encoded
EncodeDecoded ==
    /\ codec.op = "decode"
    /\ codec' = [codec EXCEPT !.op = "decode_encode", !.outWord = InstructionToU16(codec.outIns)]
    /\ UNCHANGED <<phase, memory, registers, panicked, steps, executed, before, earlier, calls,
                   frame_elapsed, event, driver, asm, tool>>

CodecNext == Decode \/ Encode \/ DecodeEncoded \/ EncodeDecoded

CodecSpec == Init /\ [][CodecNext]_vars
-----------------------------------------------------------------------------
(* The driver loops: Chip8Driver::run (driver.rs), RaylibDriver::step_running *)
(* and EguiDriver::step_running (frontend/).  The machine they drive is       *)
(* reached through Chip8::clear_keys, set_key, tick_timers and do_instruction.*)

\* Passes of the driver loop explored (Running frames and Paused passes)
DrvMaxPasses == 3

\* enum KeyInput, as far as the loops tell the variants apart
KI(t, key) == [t |-> t, key |-> key]

\* What get_inputs() may return in one cycle
DrvInputLists ==
    { <<>>,
      <<KI("Chip8Key", 1)>>,
      <<KI("Chip8Key", 2)>>,
      <<KI("Step", 0)>>,
      <<KI("TogglePause", 0), KI("Chip8Key", 2)>>,
      <<KI("Chip8Key", 1), KI("ToggleDebug", 0)>> }

\* The value an executed instruction stores in the delay timer, if it stores one
DrvDelaySel == {<<>>, <<2>>}

\* One call on the machine, as the log of the frame records it
Called(d, call, key) ==
    [d EXCEPT !.log = Append(d.log, [call |-> call, key |-> key, keys |-> d.keys])]

\* Chip8::clear_keys: all 16 key flags are cleared
Chip8ClearKeys(d) == Called([d EXCEPT !.keys = {}], "clear_keys", 0)

\* Chip8::set_key: the flag of one key is set
Chip8SetKey(d, key) == Called([d EXCEPT !.keys = d.keys \cup {key}], "set_key", key)

\* Chip8::tick_timers: each timer is lowered by 1 if it is nonzero
Chip8TickTimers(d) ==
    Called([d EXCEPT !.delay = IF d.delay > 0 THEN d.delay - 1 ELSE 0,
                     !.sound = IF d.sound > 0 THEN d.sound - 1 ELSE 0], "tick_timers", 0)

\* Chip8::do_instruction: one instruction executes; it reads the key flags and
\* may store a value (set) in the delay timer
Chip8DoInstruction(d, set) ==
    Called(IF set = <<>> THEN d ELSE [d EXCEPT !.delay = set[1]], "do_instruction", 0)

\* RunningInputs with the Chip8Key arm of the Paused loop: clear_keys(), then
\* set_key(key)
RECURSIVE RunningInputs_clearing(_, _, _)
RunningInputs_clearing(d, inputs, breaks) ==
    IF inputs = <<>> THEN d
    ELSE LET k == Head(inputs)
         IN  CASE k.t = "Chip8Key" ->
                    RunningInputs_clearing(Chip8SetKey(Chip8ClearKeys(d), k.key), Tail(inputs), breaks)
               [] k.t = "TogglePause" ->
                    IF breaks THEN [d EXCEPT !.mode = "Paused"]
                    ELSE RunningInputs_clearing([d EXCEPT !.mode = "Paused"], Tail(inputs), breaks)
               [] OTHER -> RunningInputs_clearing(d, Tail(inputs), breaks)

\* The `for k in get_inputs()` loop of a Running frame.  In the step_running
\* loops TogglePause is followed by `break` (breaks), in Chip8Driver::run it is
\* not.
RECURSIVE RunningInputs(_, _, _)
RunningInputs(d, inputs, breaks) ==
    IF inputs = <<>> THEN d
    ELSE LET k == Head(inputs)
         IN  CASE k.t = "Chip8Key" -> RunningInputs(Chip8SetKey(d, k.key), Tail(inputs), breaks)
               [] k.t = "TogglePause" ->
                    IF breaks THEN [d EXCEPT !.mode = "Paused"]
                    ELSE RunningInputs([d EXCEPT !.mode = "Paused"], Tail(inputs), breaks)
               [] OTHER -> RunningInputs(d, Tail(inputs), breaks)

\* The `for k in get_inputs()` loop of the Paused arm
RECURSIVE PausedInputs(_, _, _)
PausedInputs(d, inputs, set) ==
    IF inputs = <<>> THEN d
    ELSE LET k == Head(inputs)
         IN  CASE k.t = "Step" ->
                    PausedInputs(Chip8TickTimers(Chip8DoInstruction(d, set)), Tail(inputs), set)
               [] k.t = "Chip8Key" ->
                    PausedInputs(Chip8SetKey(Chip8ClearKeys(d), k.key), Tail(inputs), set)
               [] k.t = "TogglePause" ->
                    PausedInputs([d EXCEPT !.mode = "Running"], Tail(inputs), set)
               [] OTHER -> PausedInputs(d, Tail(inputs), set)

\* Chip8Driver::new / the front-end drivers' constructors: a driver of one of
\* the three kinds, in one of the two modes
DrvNew ==
    /\ driver.pos = "off"
    /\ \E kind \in {"run", "raylib", "egui"}, mode \in {"Running", "Paused"}, delay \in {0, 2} :
        driver' = [DriverOff EXCEPT !.kind = kind, !.mode = mode, !.pos = "loop",
                                    !.delay = delay]
    /\ UNCHANGED <<phase, memory, registers, panicked, steps, executed, before, earlier, calls,
                   codec, frame_elapsed, event, asm, tool>>

\* The start of a frame in Running mode: clear_keys(), then tick_timers()
DrvFrameStart ==
    /\ driver.pos = "loop"
    /\ driver.mode = "Running"
    /\ driver.passes < DrvMaxPasses
    /\ driver' = Chip8TickTimers(Chip8ClearKeys(
                    [driver EXCEPT !.pos = "frame", !.cycle = 0, !.log = <<>>,
                                   !.passes = driver.passes + 1]))
    /\ UNCHANGED <<phase, memory, registers, panicked, steps, executed, before, earlier, calls,
                   codec, frame_elapsed, event, asm, tool>>

\* One cycle of a Running frame: the inputs are applied, do_instruction runs if
\* the mode is still Running, a breakpoint at the new pc (breakpoint) pauses
DrvCycle ==
    /\ driver.pos = "frame"
    /\ driver.cycle < FrameCycles
    /\ \E inputs \in DrvInputLists, set \in DrvDelaySel, breakpoint \in BOOLEAN :
        LET d1 == RunningInputs(driver, inputs, driver.kind # "run")
            d2 == IF d1.mode = "Running" THEN Chip8DoInstruction(d1, set) ELSE d1
            d3 == IF breakpoint THEN [d2 EXCEPT !.mode = "Paused"] ELSE d2
        IN  /\ (d1.mode # "Running") => set = <<>>
            /\ driver' = [d3 EXCEPT !.cycle = driver.cycle + 1]
    /\ UNCHANGED <<phase, memory, registers, panicked, steps, executed, before, earlier, calls,
                   codec, frame_elapsed, event, asm, tool>>

\* The end of a frame: the cycles of the frame are done, the screen is updated
DrvFrameEnd ==
    /\ driver.pos = "frame"
    /\ ~(driver.cycle < FrameCycles)
    /\ driver' = [driver EXCEPT !.pos = "loop"]
    /\ UNCHANGED <<phase, memory, registers, panicked, steps, executed, before, earlier, calls,
                   codec, frame_elapsed, event, asm, tool>>

\* A pass of the loop in Paused mode
DrvPaused ==
    /\ driver.pos = "loop"
    /\ driver.mode = "Paused"
    /\ driver.passes < DrvMaxPasses
    /\ \E inputs \in DrvInputLists \cup {<<KI("TogglePause", 0)>>}, set \in DrvDelaySel :
        /\ (\A i \in 1..Len(inputs) : inputs[i].t # "Step") => set = <<>>
        /\ driver' = [PausedInputs([driver EXCEPT !.passes = driver.passes + 1], inputs, set)
                        EXCEPT !.log = <<>>]
    /\ UNCHANGED <<phase, memory, registers, panicked, steps, executed, before, earlier, calls,
                   codec, frame_elapsed, event, asm, tool>>

DriverNext == DrvNew \/ DrvFrameStart \/ DrvCycle \/ DrvFrameEnd \/ DrvPaused

DriverSpec == Init /\ [][DriverNext]_vars
-----------------------------------------------------------------------------
(* chip8cc, labels.rs: parse_program builds a Program (instructions, labels, *)
(* references) from the lines the grammar recognised in the source.          *)

\* Longest source (in lines) built from AsmLines
AsmMaxLines == 3

\* An operand token: its grammar rule ("register", "number"; "none" when the
\* statement has no such operand) and the value its digits denote
Tok(rule, val) == [rule |-> rule, val |-> val]

NoTok == Tok("none", 0)

\* A line of the source as the grammar hands it over: its rule, the label it
\* defines or refers to (name; "" for none), the fixed address of a jump or
\* call, its operand tokens and the bytes of a bytes statement
SrcLine(rule, name, addr, a0, a1, a2, data) ==
    [rule |-> rule, name |-> name, addr |-> addr, a0 |-> a0, a1 |-> a1, a2 |-> a2, data |-> data]

LabelLine(name) == SrcLine("label", name, 0, NoTok, NoTok, NoTok, <<>>)

\* enum Line: Instr(Instruction) or Data(Vec<u8>)
LineInstr(ins) == [kind |-> "Instr", ins |-> ins, data |-> <<>>]

LineData(bytes) == [kind |-> "Data", ins |-> NoInstr, data |-> bytes]

\* ParseResult: Ok((line, reference)) or Err; reference is <<>> or <<label>>
POk(line, reference) == [ok |-> TRUE, panic |-> FALSE, line |-> line, reference |-> reference]

PErr == [ok |-> FALSE, panic |-> FALSE, line |-> LineInstr(NoInstr), reference |-> <<>>]

\* No ParseResult: an unwrap() inside the parser has failed
PPanic == [ok |-> FALSE, panic |-> TRUE, line |-> LineInstr(NoInstr), reference |-> <<>>]

\* register(): the digits after the v must parse as a u8
register_ok(tok) == tok.val \in 0..255

\* parse_u8(): the number must fit a byte
parse_u8_ok(tok) == tok.val \in 0..255

\* parse_addr: a fixed address, or placeholder 0 and the label referred to
parse_addr(l) == IF l.name = "" THEN <<l.addr, <<>>>> ELSE <<0, <<l.name>>>>

\* parse_binop
parse_binop(l) ==
    IF l.rule = "add" /\ l.a1.rule = "none" THEN
        (IF register_ok(l.a0) THEN POk(LineInstr(Ins("AddMemPtr", l.a0.val, 0, 0)), <<>>) ELSE PErr)
    ELSE IF ~register_ok(l.a0) THEN PErr
    ELSE IF l.a1.rule = "register" /\ ~register_ok(l.a1) THEN PErr
    ELSE IF l.a1.rule = "number" /\ ~parse_u8_ok(l.a1) THEN PErr
    ELSE IF l.a1.rule \notin {"register", "number"} THEN PErr
    ELSE LET r1 == l.a0.val
             r2 == l.a1.val
             imm == l.a1.rule = "number"
         IN  CASE l.rule = "add" ->
                    POk(LineInstr(IF imm THEN Ins("AddImm", r1, 0, r2) ELSE Ins("AddReg", r1, r2, 0)), <<>>)
               [] l.rule = "se" ->
                    POk(LineInstr(IF imm THEN Ins("SkipEqImm", r1, 0, r2) ELSE Ins("SkipEqReg", r1, r2, 0)), <<>>)
               [] l.rule = "sne" ->
                    POk(LineInstr(IF imm THEN Ins("SkipNeImm", r1, 0, r2) ELSE Ins("SkipNeReg", r1, r2, 0)), <<>>)
               [] l.rule = "sub" -> POk(LineInstr(Ins("SubReg", r1, r2, 0)), <<>>)
               [] l.rule = "or" -> POk(LineInstr(Ins("OrReg", r1, r2, 0)), <<>>)
               [] l.rule = "and" -> POk(LineInstr(Ins("AndReg", r1, r2, 0)), <<>>)
               [] l.rule = "xor" -> POk(LineInstr(Ins("XorReg", r1, r2, 0)), <<>>)
               [] l.rule = "subn" -> POk(LineInstr(Ins("SubFrom", r1, r2, 0)), <<>>)
               [] OTHER -> PErr

\* parse_draw: two registers and the height, as_str().parse().unwrap() into u8
parse_draw(l) ==
    IF ~register_ok(l.a0) \/ ~register_ok(l.a1) THEN PErr
    ELSE IF l.a2.val \notin 0..255 THEN PPanic
    ELSE POk(LineInstr(Ins("Draw", l.a0.val, l.a1.val, l.a2.val)), <<>>)

\* parse_unop
parse_unop(l) ==
    IF ~register_ok(l.a0) THEN PErr
    ELSE CASE l.rule = "rsh" -> POk(LineInstr(Ins("Rsh", l.a0.val, 0, 0)), <<>>)
           [] l.rule = "lsh" -> POk(LineInstr(Ins("Lsh", l.a0.val, 0, 0)), <<>>)
           [] l.rule = "skp" -> POk(LineInstr(Ins("SkipKeyPressed", l.a0.val, 0, 0)), <<>>)
           [] l.rule = "sknp" -> POk(LineInstr(Ins("SkipKeyNotPressed", l.a0.val, 0, 0)), <<>>)
           [] OTHER -> PErr

\* The one-register arms of parse_load: the variant built for the rule
load_variant(rule) ==
    CASE rule = "ldchar" -> "SetChar"
      [] rule = "bcd" -> "BCD"
      [] rule = "setdelay" -> "SetDelay"
      [] rule = "getdelay" -> "GetDelay"
      [] rule = "setsound" -> "SetSound"
      [] rule = "regdmp" -> "SetSound"
      [] rule = "regload" -> "RegLoad"

\* parse_load: l.rule is the rule of the load form.  The address of ldmem is
\* read by as_str().parse().unwrap() into u16.
parse_load(l) ==
    CASE l.rule \in {"ldchar", "bcd", "setdelay", "getdelay", "setsound", "regdmp", "regload"} ->
            IF register_ok(l.a0) THEN POk(LineInstr(Ins(load_variant(l.rule), l.a0.val, 0, 0)), <<>>)
            ELSE PErr
      [] l.rule = "ldmem" ->
            IF l.a0.val \in 0..65535 THEN POk(LineInstr(Ins("SetMemPtr", 0, 0, l.a0.val)), <<>>)
            ELSE PPanic
      [] l.rule = "setreg" ->
            IF register_ok(l.a0) /\ register_ok(l.a1)
            THEN POk(LineInstr(Ins("SetReg", l.a0.val, l.a1.val, 0)), <<>>)
            ELSE PErr
      [] l.rule = "setimm" ->
            IF parse_u8_ok(l.a1) /\ register_ok(l.a0)
            THEN POk(LineInstr(Ins("SetImm", l.a0.val, 0, l.a1.val)), <<>>)
            ELSE PErr
      [] OTHER -> PErr

\* The rules of the load forms, which reach parse_load through Rule::load
LoadRules ==
    {"ldchar", "bcd", "ldmem", "setdelay", "getdelay", "setsound", "regdmp", "regload",
     "setreg", "setimm"}

\* parse_instruction
parse_instruction(l) ==
    CASE l.rule = "cls" -> POk(LineInstr(Ins("ClearScreen", 0, 0, 0)), <<>>)
      [] l.rule = "ret" -> POk(LineInstr(Ins("Ret", 0, 0, 0)), <<>>)
      [] l.rule = "nop" -> POk(LineInstr(Ins("Nop", 0, 0, 0)), <<>>)
      [] l.rule = "call" -> POk(LineInstr(Ins("Call", 0, 0, parse_addr(l)[1])), parse_addr(l)[2])
      [] l.rule = "jump" -> POk(LineInstr(Ins("Jump", 0, 0, parse_addr(l)[1])), parse_addr(l)[2])
      [] l.rule = "jpoff" ->
            POk(LineInstr(Ins("JumpOffset", 0, 0, parse_addr(l)[1])), parse_addr(l)[2])
      [] l.rule \in {"add", "sub", "se", "sne", "or", "and", "xor", "subn", "rnd"} -> parse_binop(l)
      [] l.rule = "drw" -> parse_draw(l)
      [] l.rule \in {"rsh", "lsh", "skp", "sknp"} -> parse_unop(l)
      [] l.rule \in LoadRules -> parse_load(l)
      [] l.rule = "bytes" -> POk(LineData(l.data), <<>>)
      [] OTHER -> PErr

\* The body of the `for line in file` loop with the label arm recording the
\* number of source lines before the label
parse_line_counting_labels(a, l) ==
    IF l.rule = "label"
    THEN [a EXCEPT !.labels = (l.name :> a.pos) @@ a.labels, !.pos = a.pos + 1]
    ELSE LET r == parse_instruction(l)
         IN  IF r.ok
             THEN [a EXCEPT !.instructions = Append(a.instructions, r.line),
                            !.references = Append(a.references, r.reference),
                            !.pos = a.pos + 1]
             ELSE IF r.panic
             THEN [a EXCEPT !.status = "panic", !.fault = "unwrap"]
             ELSE [a EXCEPT !.status = "err", !.instructions = <<>>, !.labels = <<>>,
                            !.references = <<>>]

\* The body of the `for line in file` loop of parse_program, for the line l: a
\* statement is parsed and pushed with its reference (a parse error is
\* returned and the Program dropped), a label is inserted with
\* instructions.len()
parse_line(a, l) ==
    IF l.rule = "label"
    THEN [a EXCEPT !.labels = (l.name :> Len(a.instructions)) @@ a.labels, !.pos = a.pos + 1]
    ELSE LET r == parse_instruction(l)
         IN  IF r.ok
             THEN [a EXCEPT !.instructions = Append(a.instructions, r.line),
                            !.references = Append(a.references, r.reference),
                            !.pos = a.pos + 1]
             ELSE IF r.panic
             THEN [a EXCEPT !.status = "panic", !.fault = "unwrap"]
             ELSE [a EXCEPT !.status = "err", !.instructions = <<>>, !.labels = <<>>,
                            !.references = <<>>]

\* The lines the sources are built from
AsmLines ==
    { LabelLine("a"), LabelLine("b"),
      SrcLine("setimm", "", 0, Tok("register", 0), Tok("number", 1), NoTok, <<>>),
      SrcLine("add", "", 0, Tok("register", 0), Tok("register", 1), NoTok, <<>>),
      SrcLine("jump", "a", 0, NoTok, NoTok, NoTok, <<>>),
      SrcLine("call", "b", 0, NoTok, NoTok, NoTok, <<>>),
      SrcLine("jpoff", "a", 0, NoTok, NoTok, NoTok, <<>>),
      SrcLine("jump", "", \h234, NoTok, NoTok, NoTok, <<>>),
      SrcLine("bytes", "", 0, NoTok, NoTok, NoTok, <<1, 2, 3>>),
      SrcLine("setimm", "", 0, Tok("register", 999), Tok("number", 1), NoTok, <<>>) }

\* The program of tests::test_parse1, without its last line:
\* start: / ld v0 1 / ld v1 10 / loop: / add v0 1 / se v0 v1 / jp loop / end: / jp end
TestParse1 ==
    << LabelLine("start"),
       SrcLine("setimm", "", 0, Tok("register", 0), Tok("number", 1), NoTok, <<>>),
       SrcLine("setimm", "", 0, Tok("register", 1), Tok("number", 10), NoTok, <<>>),
       LabelLine("loop"),
       SrcLine("add", "", 0, Tok("register", 0), Tok("number", 1), NoTok, <<>>),
       SrcLine("se", "", 0, Tok("register", 0), Tok("register", 1), NoTok, <<>>),
       SrcLine("jump", "loop", 0, NoTok, NoTok, NoTok, <<>>),
       LabelLine("end"),
       SrcLine("jump", "end", 0, NoTok, NoTok, NoTok, <<>>) >>

\* The program of tests::test_parse2:
\* start: / ld v0 1 / ld v1 0x10 / loop: / add v0 1 / se v0 v1 / jp loop /
\* bytes 0x1 0x2 0x3 0x4 0x5 / end: / jp end / jp start
TestParse2 ==
    << LabelLine("start"),
       SrcLine("setimm", "", 0, Tok("register", 0), Tok("number", 1), NoTok, <<>>),
       SrcLine("setimm", "", 0, Tok("register", 1), Tok("number", 16), NoTok, <<>>),
       LabelLine("loop"),
       SrcLine("add", "", 0, Tok("register", 0), Tok("number", 1), NoTok, <<>>),
       SrcLine("se", "", 0, Tok("register", 0), Tok("register", 1), NoTok, <<>>),
       SrcLine("jump", "loop", 0, NoTok, NoTok, NoTok, <<>>),
       SrcLine("bytes", "", 0, NoTok, NoTok, NoTok, <<1, 2, 3, 4, 5>>),
       LabelLine("end"),
       SrcLine("jump", "end", 0, NoTok, NoTok, NoTok, <<>>),
       SrcLine("jump", "start", 0, NoTok, NoTok, NoTok, <<>>) >>

\* A statement with the register operands v1 (and v2) and the number num
Stmt1(rule) == SrcLine(rule, "", 0, Tok("register", 1), NoTok, NoTok, <<>>)

Stmt2(rule) == SrcLine(rule, "", 0, Tok("register", 1), Tok("register", 2), NoTok, <<>>)

StmtImm(rule, num) == SrcLine(rule, "", 0, Tok("register", 1), Tok("number", num), NoTok, <<>>)

\* One statement of every kind parse_instruction dispatches, and statements
\* whose operands are wider than the field of the instruction word: a height
\* of 200, the addresses 0x1234 and 0xFFFF, the register v111 of test_parse1
AsmStatements ==
    {SrcLine(r, "", 0, NoTok, NoTok, NoTok, <<>>) : r \in {"cls", "ret", "nop"}}
    \cup {Stmt1(r) : r \in {"rsh", "lsh", "skp", "sknp", "add", "ldchar", "bcd", "setdelay",
                            "getdelay", "setsound", "regdmp", "regload"}}
    \cup {Stmt2(r) : r \in {"add", "sub", "se", "sne", "or", "and", "xor", "subn", "setreg"}}
    \cup {StmtImm(r, 7) : r \in {"add", "se", "sne", "rnd", "setimm"}}
    \cup {SrcLine("drw", "", 0, Tok("register", 1), Tok("register", 2), Tok("number", n), <<>>) :
            n \in {5, 200, 256}}
    \cup {SrcLine("ldmem", "", 0, Tok("number", a), NoTok, NoTok, <<>>) : a \in {\h123, \hFFFF, 65536}}
    \cup {SrcLine(r, "", \h1234, NoTok, NoTok, NoTok, <<>>) : r \in {"jump", "call", "jpoff"}}
    \cup {SrcLine("setimm", "", 0, Tok("register", 111), Tok("number", 99), NoTok, <<>>),
          SrcLine("add", "", 0, Tok("register", 16), Tok("register", 1), NoTok, <<>>)}

AsmSources ==
    {TestParse1, TestParse2}
    \cup UNION {[1..n -> AsmLines] : n \in 0..AsmMaxLines}
    \cup {<<l>> : l \in AsmStatements}

\* parse_program(file): the grammar has recognised the lines of the source
AsmParse ==
    /\ asm.status = "idle"
    /\ \E src \in AsmSources : asm' = [AsmIdle EXCEPT !.status = "parsing", !.source = src]
    /\ UNCHANGED <<phase, memory, registers, panicked, steps, executed, before, earlier, calls,
                   codec, frame_elapsed, event, driver, tool>>

\* One turn of the loop over the lines
AsmLine ==
    /\ asm.status = "parsing"
    /\ asm.pos < Len(asm.source)
    /\ asm' = parse_line(asm, asm.source[asm.pos + 1])
    /\ UNCHANGED <<phase, memory, registers, panicked, steps, executed, before, earlier, calls,
                   codec, frame_elapsed, event, driver, tool>>

\* Rule::EOI: the loop ends and Ok(program) is returned
AsmEOI ==
    /\ asm.status = "parsing"
    /\ asm.pos = Len(asm.source)
    /\ asm' = [asm EXCEPT !.status = "ok"]
    /\ UNCHANGED <<phase, memory, registers, panicked, steps, executed, before, earlier, calls,
                   codec, frame_elapsed, event, driver, tool>>

\* The closure with a Data block counted as one instruction
line_size_flat(l) == INSTRUCTION_SIZE

\* The closure of fix_references: the bytes a line takes in the binary
line_size(l) == IF l.kind = "Instr" THEN INSTRUCTION_SIZE ELSE Len(l.data)

\* sizes.into_iter().sum() over instructions[..target]
RECURSIVE total_size(_, _)
total_size(instructions, target) ==
    IF target = 0 THEN 0
    ELSE total_size(instructions, target - 1) + line_size(instructions[target])

\* Most calls of fix_references on one Program
AsmMaxRuns == 2

\* The turn of the loop with the new address added to the operand in place
fix_reference_adding(a, usage) ==
    IF a.status = "panic" \/ a.references[usage] = <<>> THEN a
    ELSE LET label == a.references[usage][1]
         IN  IF label \notin {k \in DOMAIN a.labels : TRUE}
             THEN [a EXCEPT !.status = "panic", !.fault = "labels[label]"]
             ELSE LET line == a.instructions[usage]
                      new_addr == (line.ins.n + total_size(a.instructions, a.labels[label]) + \h200)
                                    % 65536
                  IN  IF line.kind = "Instr" /\ line.ins.op \in {"Call", "Jump"}
                      THEN [a EXCEPT !.instructions[usage] =
                                        LineInstr(Ins(line.ins.op, 0, 0, new_addr))]
                      ELSE [a EXCEPT !.status = "panic", !.fault = "unexpected instruction"]

\* One turn of the loop of fix_references, for the slot usage (1-based here).
\* labels[label] panics when the label is not in the table
fix_reference(a, usage) ==
    IF a.status = "panic" \/ a.references[usage] = <<>> THEN a
    ELSE LET label == a.references[usage][1]
         IN  IF label \notin {k \in DOMAIN a.labels : TRUE}
             THEN [a EXCEPT !.status = "panic", !.fault = "labels[label]"]
             ELSE LET new_addr == (total_size(a.instructions, a.labels[label]) + \h200) % 65536
                      line == a.instructions[usage]
                  IN  IF line.kind = "Instr" /\ line.ins.op \in {"Call", "Jump"}
                      THEN [a EXCEPT !.instructions[usage] =
                                        LineInstr(Ins(line.ins.op, 0, 0, new_addr))]
                      ELSE [a EXCEPT !.status = "panic", !.fault = "unexpected instruction"]

\* The loop of fix_references over the first n slots
RECURSIVE fix_references_loop(_, _)
fix_references_loop(a, n) ==
    IF n = 0 THEN a ELSE fix_reference(fix_references_loop(a, n - 1), n)

\* Program::fix_references
fix_references(a) ==
    LET r == CHOOSE r \in {fix_references_loop(a, Len(a.references))} : TRUE
    IN  IF r.status = "panic" THEN r ELSE [r EXCEPT !.status = "fixed"]

\* u16::to_be_bytes
to_be_bytes(w) == <<w \div 256, w % 256>>

\* Program::compile
RECURSIVE compile(_)
compile(instructions) ==
    IF instructions = <<>> THEN <<>>
    ELSE LET line == instructions[1]
         IN  (IF line.kind = "Instr" THEN to_be_bytes(InstructionToU16(line.ins)) ELSE line.data)
             \o compile(Tail(instructions))

\* program.fix_references(), called on the Program parse_program returned, and
\* called again on the Program it has fixed; the instructions the call found
\* are kept beside the Program
AsmFixReferences ==
    /\ asm.status \in {"ok", "fixed"}
    /\ asm.runs < AsmMaxRuns
    /\ asm' = [fix_references(asm) EXCEPT !.unfixed = asm.instructions, !.runs = asm.runs + 1]
    /\ UNCHANGED <<phase, memory, registers, panicked, steps, executed, before, earlier, calls,
                   codec, frame_elapsed, event, driver, tool>>

\* to_binary of chip8cc, after parse_program returned Ok(program):
\* Ok(program.compile())
AsmToBinary ==
    /\ asm.status = "ok"
    /\ asm' = [asm EXCEPT !.status = "emitted", !.bytes = compile(asm.instructions)]
    /\ UNCHANGED <<phase, memory, registers, panicked, steps, executed, before, earlier, calls,
                   codec, frame_elapsed, event, driver, tool>>

AsmNext == AsmParse \/ AsmLine \/ AsmEOI \/ AsmFixReferences \/ AsmToBinary

AsmSpec == Init /\ [][AsmNext]_vars
-----------------------------------------------------------------------------
(* instructions.rs: the mnemonics.  Instruction::from_mnemonic parses the  *)
(* text of one instruction, impl Display prints one.                       *)

\* A mnemonic is the sequence of the parts a split at every white space
\* character gives.  A part is a symbol, whether its letters are written in
\* upper case, and the value of its decimal digits: sym is a keyword or operand
\* name in lower case ("jp", "i", "[i]", "dt", ...), "v" for the letter v
\* followed by the digits of val, "#" for the digits of val alone, "" for the
\* empty part between two adjacent white space characters and "?" for any
\* other text (none of which begins with the letter v)
Part(sym, cap, val) == [sym |-> sym, cap |-> cap, val |-> val]

\* str::to_ascii_lowercase, part by part
to_ascii_lowercase(mnemonic) ==
    [k \in DOMAIN mnemonic |-> [mnemonic[k] EXCEPT !.cap = FALSE]]

\* part.starts_with('V')
starts_with_upper_v(part) == part.sym = "v" /\ part.cap

\* part.starts_with('v')
starts_with_lower_v(part) == part.sym = "v" /\ ~part.cap

\* part == "I"
is_upper_i(part) == part.sym = "i" /\ part.cap

\* Result<Instruction, ParseError>, or the panic of an index out of bounds
MOk(ins) == [res |-> "Ok", ins |-> ins, mnemonic |-> <<>>, message |-> ""]

MErr(mnemonic, message) ==
    [res |-> "Err", ins |-> NoInstr, mnemonic |-> mnemonic, message |-> message]

MPanic == [res |-> "panic", ins |-> NoInstr, mnemonic |-> <<>>, message |-> ""]

\* The value a get_arg! gave: Ok(val) or the Err it built
ArgOk(val) == [ok |-> TRUE, val |-> val, err |-> MPanic]

ArgErr(err) == [ok |-> FALSE, val |-> 0, err |-> err]

\* get_arg!(parts, idx), parsed into an unsigned type with the maximum max:
\* a prefix v is stripped and the rest parsed as a decimal number
get_arg(parts, idx, max) ==
    IF idx >= Len(parts) THEN ArgErr(MErr(parts, "Missing argument"))
    ELSE LET part == parts[idx + 1]
         IN  IF (starts_with_lower_v(part) \/ part.sym = "#") /\ part.val <= max
             THEN ArgOk(part.val)
             ELSE ArgErr(MErr(parts, "Couldn't parse value"))

\* u8::MAX (Reg, u8) and u16::MAX (Addr)
U8Max == 255
U16Max == 65535

\* Variant(get_arg!(parts, i)?) for a variant with one address
OneAddr(parts, op, i) ==
    LET a == get_arg(parts, i, U16Max)
    IN  IF a.ok THEN MOk(Ins(op, 0, 0, a.val)) ELSE a.err

\* Variant(get_arg!(parts, i)?) for a variant with one register
OneReg(parts, op, i) ==
    LET a == get_arg(parts, i, U8Max)
    IN  IF a.ok THEN MOk(Ins(op, a.val, 0, 0)) ELSE a.err

\* Variant(get_arg!(parts, 1)?, get_arg!(parts, 2)?) for a register and a byte
RegImm(parts, op) ==
    LET a == get_arg(parts, 1, U8Max)
        b == get_arg(parts, 2, U8Max)
    IN  IF ~a.ok THEN a.err ELSE IF ~b.ok THEN b.err ELSE MOk(Ins(op, a.val, 0, b.val))

\* Variant(get_arg!(parts, 1)?, get_arg!(parts, 2)?) for two registers
RegReg(parts, op) ==
    LET a == get_arg(parts, 1, U8Max)
        b == get_arg(parts, 2, U8Max)
    IN  IF ~a.ok THEN a.err ELSE IF ~b.ok THEN b.err ELSE MOk(Ins(op, a.val, b.val, 0))

\* Draw(get_arg!(parts, 1)?, get_arg!(parts, 2)?, get_arg!(parts, 3)?)
RegRegImm(parts, op) ==
    LET a == get_arg(parts, 1, U8Max)
        b == get_arg(parts, 2, U8Max)
        c == get_arg(parts, 3, U8Max)
    IN  IF ~a.ok THEN a.err ELSE IF ~b.ok THEN b.err ELSE IF ~c.ok THEN c.err
        ELSE MOk(Ins(op, a.val, b.val, c.val))

\* Instruction::from_mnemonic.  parts[k] of the code is parts[k + 1] here; an
\* index past the end of the parts panics
from_mnemonic(mnemonic) ==
    LET parts == to_ascii_lowercase(mnemonic)
        len == Len(parts)
        kw == parts[1].sym
    IN  CASE kw = "cls" -> MOk(Ins("ClearScreen", 0, 0, 0))
          [] kw = "ret" -> MOk(Ins("Ret", 0, 0, 0))
          [] kw = "nop" -> MOk(Ins("Nop", 0, 0, 0))
          [] kw = "jp" ->
                IF len = 1 THEN OneAddr(parts, "Jump", 1) ELSE OneAddr(parts, "JumpOffset", 2)
          [] kw = "call" -> OneAddr(parts, "Call", 1)
          [] kw = "se" ->
                IF len < 3 THEN MPanic
                ELSE IF starts_with_upper_v(parts[3]) THEN RegReg(parts, "SkipEqReg")
                ELSE RegImm(parts, "SkipEqImm")
          [] kw = "sne" ->
                IF len < 3 THEN MPanic
                ELSE IF starts_with_upper_v(parts[3]) THEN RegReg(parts, "SkipNeReg")
                ELSE RegImm(parts, "SkipNeImm")
          [] kw = "ld" ->
                IF len < 2 THEN MPanic
                ELSE CASE parts[2].sym = "i" -> OneAddr(parts, "SetMemPtr", 2)
                       [] parts[2].sym = "[i]" -> OneReg(parts, "RegDump", 2)
                       [] parts[2].sym = "dt" -> OneReg(parts, "SetDelay", 2)
                       [] parts[2].sym = "st" -> OneReg(parts, "SetSound", 2)
                       [] parts[2].sym = "f" -> OneReg(parts, "SetChar", 2)
                       [] parts[2].sym = "b" -> OneReg(parts, "BCD", 2)
                       [] OTHER ->
                            IF len < 3 THEN MPanic
                            ELSE CASE parts[3].sym = "dt" -> OneReg(parts, "GetDelay", 1)
                                   [] parts[3].sym = "k" -> OneReg(parts, "WaitForKey", 1)
                                   [] parts[3].sym = "[i]" -> OneReg(parts, "RegLoad", 1)
                                   [] OTHER ->
                                        IF starts_with_lower_v(parts[3])
                                        THEN RegReg(parts, "SetReg")
                                        ELSE RegImm(parts, "SetImm")
          [] kw = "add" ->
                IF len < 2 THEN MPanic
                ELSE IF is_upper_i(parts[2]) THEN OneReg(parts, "AddMemPtr", 1)
                ELSE IF len < 3 THEN MPanic
                ELSE IF starts_with_upper_v(parts[3]) THEN RegReg(parts, "AddReg")
                ELSE RegImm(parts, "AddImm")
          [] kw = "or" -> RegReg(parts, "OrReg")
          [] kw = "and" -> RegReg(parts, "AndReg")
          [] kw = "xor" -> RegReg(parts, "XorReg")
          [] kw = "sub" -> RegReg(parts, "SubReg")
          [] kw = "rsh" -> OneReg(parts, "Rsh", 1)
          [] kw = "subn" -> RegReg(parts, "SubFrom")
          [] kw = "lsh" -> OneReg(parts, "Lsh", 1)
          [] kw = "rnd" -> RegImm(parts, "Rand")
          [] kw = "drw" -> RegRegImm(parts, "Draw")
          [] kw = "skp" -> OneReg(parts, "SkipKeyPressed", 1)
          [] kw = "sknp" -> OneReg(parts, "SkipKeyNotPressed", 1)
          [] OTHER -> MErr(mnemonic, "Unknown instruction")

\* The parts write! prints: a word in upper case, V{reg}, a number
Word(sym) == Part(sym, TRUE, 0)

VReg(reg) == Part("v", TRUE, reg)

Num(n) == Part("#", FALSE, n)

\* impl Display for Instruction
Display(i) ==
    CASE i.op = "Nop" -> <<Word("nop")>>
      [] i.op = "ClearScreen" -> <<Word("cls")>>
      [] i.op = "Ret" -> <<Word("ret")>>
      [] i.op = "Jump" -> <<Word("jmp"), VReg(i.n)>>
      [] i.op = "Call" -> <<Word("call"), VReg(i.n)>>
      [] i.op = "SkipEqImm" -> <<Word("se"), VReg(i.x), Num(i.n)>>
      [] i.op = "SkipEqReg" -> <<Word("se"), VReg(i.x), VReg(i.y)>>
      [] i.op = "SkipNeImm" -> <<Word("sne"), VReg(i.x), Num(i.n)>>
      [] i.op = "SkipNeReg" -> <<Word("sne"), VReg(i.x), VReg(i.y)>>
      [] i.op = "SetImm" -> <<Word("ld"), VReg(i.x), Num(i.n)>>
      [] i.op = "AddImm" -> <<Word("add"), VReg(i.x), Num(i.n)>>
      [] i.op = "AddMemPtr" -> <<Word("add"), Word("i"), VReg(i.x)>>
      [] i.op = "AddReg" -> <<Word("add"), VReg(i.x), VReg(i.y)>>
      [] i.op = "SetReg" -> <<Word("ld"), VReg(i.x), VReg(i.y)>>
      [] i.op = "OrReg" -> <<Word("or"), VReg(i.x), VReg(i.y)>>
      [] i.op = "AndReg" -> <<Word("and"), VReg(i.x), VReg(i.y)>>
      [] i.op = "XorReg" -> <<Word("xor"), VReg(i.x), VReg(i.y)>>
      [] i.op = "SubReg" -> <<Word("sub"), VReg(i.x), VReg(i.y)>>
      [] i.op = "Rsh" -> <<Word("rsh"), VReg(i.x)>>
      [] i.op = "SubFrom" -> <<Word("subn"), VReg(i.x), VReg(i.y)>>
      [] i.op = "Lsh" -> <<Word("lsh"), VReg(i.x)>>
      [] i.op = "SetMemPtr" -> <<Word("ld"), Word("i"), Num(i.n)>>
      [] i.op = "JumpOffset" -> <<Word("jp"), VReg(0), Num(i.n)>>
      [] i.op = "Rand" -> <<Word("rnd"), VReg(i.x), Num(i.n)>>
      [] i.op = "Draw" -> <<Word("drw"), VReg(i.x), VReg(i.y), Num(i.n)>>
      [] i.op = "SkipKeyPressed" -> <<Word("skp"), VReg(i.x)>>
      [] i.op = "SkipKeyNotPressed" -> <<Word("sknp"), VReg(i.x)>>
      [] i.op = "GetDelay" -> <<Word("ld"), VReg(i.x), Word("dt")>>
      [] i.op = "WaitForKey" -> <<Word("ld"), VReg(i.x), Word("k")>>
      [] i.op = "SetDelay" -> <<Word("ld"), Word("dt"), VReg(i.x)>>
      [] i.op = "SetSound" -> <<Word("ld"), Word("st"), VReg(i.x)>>
      [] i.op = "SetChar" -> <<Word("ld"), Word("f"), VReg(i.x)>>
      [] i.op = "BCD" -> <<Word("ld"), Word("b"), VReg(i.x)>>
      [] i.op = "RegDump" -> <<Word("ld"), Word("[i]"), VReg(i.x)>>
      [] i.op = "RegLoad" -> <<Word("ld"), VReg(i.x), Word("[i]")>>

\* The keywords of the mnemonics parsed: those of from_mnemonic, JMP (which
\* Display prints), a word that is no keyword and the empty text
MnKeywords ==
    {"cls", "ret", "nop", "jp", "jmp", "call", "se", "sne", "ld", "add", "or", "and", "xor",
     "sub", "rsh", "subn", "lsh", "rnd", "drw", "skp", "sknp", "?", ""}

\* The operand parts of the mnemonics parsed
MnOperands ==
    {VReg(1), Part("v", FALSE, 2), Part("v", FALSE, 300), Num(5), Num(512),
     Word("i"), Part("i", FALSE, 0), Word("dt"), Word("k"), Word("[i]"), Part("?", FALSE, 0)}

\* Most operand parts in a mnemonic parsed
MnMaxOperands == 3

\* The mnemonics parsed: a keyword and up to most operand parts
MnemonicTexts(most) ==
    {<<Part(kw, FALSE, 0)>> \o ops :
        kw \in MnKeywords, ops \in UNION {[1..n -> MnOperands] : n \in 0..most}}

\* A mnemonic is written by hand
MnText ==
    /\ tool.op = "none"
    /\ \E t \in MnemonicTexts(MnMaxOperands) : tool' = [ToolIdle EXCEPT !.op = "text", !.text = t]
    /\ UNCHANGED <<phase, memory, registers, panicked, steps, executed, before, earlier, calls,
                   codec, frame_elapsed, event, driver, asm>>

\* i.to_string(): an instruction is printed
MnDisplay ==
    /\ tool.op = "none"
    /\ \E i \in CodecInstructions :
            tool' = [ToolIdle EXCEPT !.op = "printed", !.ins = i, !.text = Display(i)]
    /\ UNCHANGED <<phase, memory, registers, panicked, steps, executed, before, earlier, calls,
                   codec, frame_elapsed, event, driver, asm>>

\* Instruction::from_mnemonic(text), on a mnemonic written by hand ("parsed")
\* or printed by Display ("reparsed")
MnFromMnemonic ==
    /\ tool.op \in {"text", "printed"}
    /\ tool' = [tool EXCEPT !.op = IF tool.op = "printed" THEN "reparsed" ELSE "parsed",
                            !.result = from_mnemonic(tool.text)]
    /\ UNCHANGED <<phase, memory, registers, panicked, steps, executed, before, earlier, calls,
                   codec, frame_elapsed, event, driver, asm>>

MnemonicNext == MnText \/ MnDisplay \/ MnFromMnemonic

MnemonicSpec == Init /\ [][MnemonicNext]_vars
-----------------------------------------------------------------------------
(* bin/assembler.rs: the line assembler.  assemble turns a text of         *)
(* mnemonics into a binary, disassemble a binary into mnemonics.           *)

\* The empty string, as the parts of its split
EmptyText == <<Part("", FALSE, 0)>>

\* str::is_empty
is_empty(mnemonic) == mnemonic = EmptyText

\* str::trim: the white space at both ends is removed, which are the empty
\* parts at both ends
RECURSIVE trim_start(_)
trim_start(mnemonic) ==
    IF Len(mnemonic) > 1 /\ mnemonic[1].sym = "" THEN trim_start(Tail(mnemonic)) ELSE mnemonic

RECURSIVE trim_end(_)
trim_end(mnemonic) ==
    IF Len(mnemonic) > 1 /\ mnemonic[Len(mnemonic)].sym = ""
    THEN trim_end(SubSeq(mnemonic, 1, Len(mnemonic) - 1))
    ELSE mnemonic

trim(mnemonic) == trim_end(trim_start(mnemonic))

\* Result<Vec<u16>, ParsingError> of to_binary, or the panic that ended it
BOk(words) ==
    [res |-> "Ok", words |-> words, mnemonic |-> <<>>, message |-> "", line_number |-> 0]

BErr(error, line_number) ==
    [res |-> "Err", words |-> <<>>, mnemonic |-> error.mnemonic, message |-> error.message,
     line_number |-> line_number]

BPanic ==
    [res |-> "panic", words |-> <<>>, mnemonic |-> <<>>, message |-> "", line_number |-> 0]

\* The loops of to_binary from the k-th mnemonic of the line ln on (both
\* 1-based here; line_number of the code is ln - 1).  A text is the sequence
\* of its lines, a line the sequence of the mnemonics split(";") gives
RECURSIVE to_binary_from(_, _, _, _)
to_binary_from(text, ln, k, bytes) ==
    IF ln > Len(text) THEN BOk(bytes)
    ELSE IF k > Len(text[ln]) THEN to_binary_from(text, ln + 1, 1, bytes)
    ELSE IF is_empty(text[ln][k]) THEN to_binary_from(text, ln, k + 1, bytes)
    ELSE LET r == from_mnemonic(trim(text[ln][k]))
         IN  CASE r.res = "Ok" ->
                    to_binary_from(text, ln, k + 1, Append(bytes, InstructionToU16(r.ins)))
               [] r.res = "Err" -> BErr(r, ln - 1)
               [] OTHER -> BPanic

\* to_binary of bin/assembler.rs
to_binary(text) == to_binary_from(text, 1, 1, <<>>)

\* bytes.into_iter().flat_map(u16::to_be_bytes)
RECURSIVE flat_to_be_bytes(_)
flat_to_be_bytes(words) ==
    IF words = <<>> THEN <<>> ELSE to_be_bytes(words[1]) \o flat_to_be_bytes(Tail(words))

\* assemble, for an input that opens and reads: the output is created and
\* written when to_binary returns Ok, the line and mnemonic are reported on
\* stderr when it returns Err
assemble(t, text) ==
    LET b == CHOOSE b \in {to_binary(text)} : TRUE
    IN  [t EXCEPT !.op = "assembled", !.lines = text, !.binary = b,
                  !.created = (b.res = "Ok"),
                  !.written = IF b.res = "Ok" THEN flat_to_be_bytes(b.words) ELSE <<>>,
                  !.reported = IF b.res = "Err" THEN b.line_number + 1 ELSE 0]

\* bytes.iter().tuples(): the bytes two by two, an odd last byte left out, each
\* pair read as a big-endian word
tuples_be(bytes) ==
    [k \in 1..(Len(bytes) \div 2) |-> bytes[2 * k - 1] * 256 + bytes[2 * k]]

\* The instructions collected without the take_while
take_all(instrs) == instrs

\* take_while(|i| !matches!(*i, Instruction::Nop))
RECURSIVE take_while_not_nop(_)
take_while_not_nop(instrs) ==
    IF instrs = <<>> \/ instrs[1].op = "Nop" THEN <<>>
    ELSE <<instrs[1]>> \o take_while_not_nop(Tail(instrs))

\* disassemble, for an input that opens and reads: the mnemonics written,
\* which the output separates with ";\n"
disassemble(t, bytes) ==
    LET words == tuples_be(bytes)
        instrs == take_while_not_nop([k \in DOMAIN words |-> InstructionFromU16(words[k])])
    IN  [t EXCEPT !.op = "disassembled", !.input = bytes, !.created = TRUE,
                  !.written = [k \in DOMAIN instrs |-> Display(instrs[k])]]

\* Most lines of a text, and most mnemonics on a line
LaMaxLines == 2
LaMaxMnemonics == 2

\* Most bytes of a binary given to disassemble
DisMaxBytes == 6

\* The mnemonics the texts are made of: "cls", "ld v1 5", " ret", "" (as after
\* a last ";"), " ", "jmp v1", "se v1" and "drw v1"
LaMnemonics ==
    { <<Part("cls", FALSE, 0)>>,
      <<Part("ld", FALSE, 0), Part("v", FALSE, 1), Num(5)>>,
      <<Part("", FALSE, 0), Part("ret", FALSE, 0)>>,
      EmptyText,
      <<Part("", FALSE, 0), Part("", FALSE, 0)>>,
      <<Part("jmp", FALSE, 0), Part("v", FALSE, 1)>>,
      <<Part("se", FALSE, 0), Part("v", FALSE, 1)>>,
      <<Part("drw", FALSE, 0), Part("v", FALSE, 1)>> }

LaLines == UNION {[1..n -> LaMnemonics] : n \in 1..LaMaxMnemonics}

LaTexts == UNION {[1..n -> LaLines] : n \in 0..LaMaxLines}

\* The bytes the binaries are made of: they form the words of CLS (00E0), JP
\* (12xx), LD (61xx) and words that decode to Nop (0000, 0012, E0xx, ...)
DisBytes == {\h00, \hE0, \h12, \h61}

DisInputs == UNION {[1..n -> DisBytes] : n \in 0..DisMaxBytes}

\* assemble(input, output)
LaAssemble ==
    /\ tool.op = "none"
    /\ \E text \in LaTexts : tool' = assemble(tool, text)
    /\ UNCHANGED <<phase, memory, registers, panicked, steps, executed, before, earlier, calls,
                   codec, frame_elapsed, event, driver, asm>>

\* disassemble(input, output)
LaDisassemble ==
    /\ tool.op = "none"
    /\ \E bytes \in DisInputs : tool' = disassemble(tool, bytes)
    /\ UNCHANGED <<phase, memory, registers, panicked, steps, executed, before, earlier, calls,
                   codec, frame_elapsed, event, driver, asm>>

\* The tool run without --disassemble
AssembleSpec == Init /\ [][LaAssemble]_vars

\* The tool run with --disassemble
DisassembleSpec == Init /\ [][LaDisassemble]_vars
-----------------------------------------------------------------------------
(* The claims.                                                             *)

SkipOps == {"SkipEqImm", "SkipNeImm", "SkipEqReg", "SkipNeReg", "SkipKey", "SkipNoKey"}

\* The condition of the conditional skip ins on the registers vn and the keys
SkipCondition(ins, vn, keys) ==
    CASE ins.op = "SkipEqImm" -> vn[ins.x] = ins.n
      [] ins.op = "SkipNeImm" -> vn[ins.x] # ins.n
      [] ins.op = "SkipEqReg" -> vn[ins.x] = vn[ins.y]
      [] ins.op = "SkipNeReg" -> vn[ins.x] # vn[ins.y]
      [] ins.op = "SkipKey" -> vn[ins.x] \in keys
      [] ins.op = "SkipNoKey" -> vn[ins.x] \notin keys

\* A do_instruction call was the last thing to happen and it returned
Returned == executed # NoInstr /\ ~panicked

\* C1: a do_instruction call that returns has executed the instruction decoded
\* from the big-endian word ram[pc] * 256 + ram[pc + 1], and has left
\* pc = a after Jump(a), pc = V0 + a after JumpOffset(a), pc = old pc + 4 after
\* a conditional skip whose condition held and old pc + 2 after one whose
\* condition did not, and pc = old pc + 2 after every other instruction except
\* Call and Ret.
C1_StepSetsPc ==
    Returned =>
        LET old == before.registers
            ram == before.memory.ram
            word == RamGet(ram, old.pc) * 256 + RamGet(ram, old.pc + 1)
        IN  /\ executed = LibInstructionFromU16(word)
            /\ CASE executed.op = "Jump" -> registers.pc = executed.n
                 [] executed.op = "JumpOffset" -> registers.pc = old.vn[0] + executed.n
                 [] executed.op \in SkipOps ->
                        registers.pc = old.pc +
                            (IF SkipCondition(executed, old.vn, before.memory.keys) THEN 4 ELSE 2)
                 [] executed.op \in {"Call", "Ret"} -> TRUE
                 [] OTHER -> registers.pc = old.pc + 2

\* C1's case: a key skip executed while the key named by Vx was pressed
C1_Witness ==
    /\ Returned
    /\ executed.op = "SkipKey"
    /\ before.registers.vn[executed.x] \in before.memory.keys
    /\ registers.pc = before.registers.pc + 4

\* C2: for every variant other than Nop with operands inside their fields,
\* decoding the word the instruction encodes to gives the instruction back.
C2_DecodeEncode ==
    (codec.op = "encode_decode" /\ codec.inIns.op # "Nop") => codec.outIns = codec.inIns

\* C2's case: a three-operand instruction went through encode and decode
C2_Witness ==
    /\ codec.op = "encode_decode"
    /\ codec.inIns = Ins("Draw", 15, 7, 15)
    /\ codec.outWord = \hDF7F
    /\ codec.outIns = codec.inIns

\* The opcode patterns 00E0, 00EE, 1NNN, 2NNN, 3XNN, 4XNN, 5XY0, 6XNN, 7XNN,
\* 8XY0..8XY7, 8XYE, 9XY0, ANNN, BNNN, CXNN, DXYN, EX9E, EXA1, FX07, FX0A, FX15,
\* FX18, FX1E, FX29, FX33, FX55, FX65
DefinedPattern(w) ==
    LET c == w \div 4096
        n == w % 16
        lo == w % 256
    IN  \/ w \in {\h00E0, \h00EE}
        \/ c \in {1, 2, 3, 4, 6, 7, 10, 11, 12, 13}
        \/ c \in {5, 9} /\ n = 0
        \/ c = 8 /\ n \in {0, 1, 2, 3, 4, 5, 6, 7, 14}
        \/ c = 14 /\ lo \in {\h9E, \hA1}
        \/ c = 15 /\ lo \in {\h07, \h0A, \h15, \h18, \h1E, \h29, \h33, \h55, \h65}

\* C3: every word outside the defined opcode patterns decodes to Nop, the
\* words 5XYN and 9XYN with N other than 0 included (and every word inside
\* them to a variant other than Nop).
C3_UndefinedIsNop ==
    codec.op = "decode" => (codec.outIns.op = "Nop" <=> ~DefinedPattern(codec.inWord))

\* C4: right after the Ret matching a Call executed at address P, pc = P + 2
\* and sp is what it was before the Call.
C4_RetAfterCall ==
    (Returned /\ executed.op = "Ret" /\ calls.matched # <<>>) =>
        /\ registers.pc = calls.matched[1].at + 2
        /\ registers.sp = calls.matched[1].sp

\* C5: a Ret with no Call outstanding (sp at its initial 0x1FF) stops the
\* emulation with an error, and pc takes no value read from memory.
C5_RetOnEmptyStack ==
    (executed.op = "Ret" /\ calls.matched = <<>> /\ before.registers.sp = \h1FF) =>
        /\ panicked
        /\ registers.pc = before.registers.pc

\* C6: add_with_overflow(a, b) = ((a + b) mod 256, a + b > 255), and AddReg(x, y)
\* leaves VF = 1 if old Vx + old Vy > 255 and VF = 0 otherwise, for every x
\* (F included), with Vx = (old Vx + old Vy) mod 256 when x is not F.
C6_AddReg ==
    (Returned /\ executed.op = "AddReg") =>
        LET a == before.registers.vn[executed.x]
            b == before.registers.vn[executed.y]
        IN  /\ add_with_overflow(a, b) = <<(a + b) % 256, a + b > 255>>
            /\ registers.vn[15] = (IF a + b > 255 THEN 1 ELSE 0)
            /\ executed.x # 15 => registers.vn[executed.x] = (a + b) % 256

\* C7: subtract_with_underflow(a, b) = ((a - b) mod 256, a >= b), so SubReg(x, y)
\* leaves Vx = (old Vx - old Vy) mod 256 and VF = 1 if old Vx >= old Vy, else 0.
C7_SubReg ==
    (Returned /\ executed.op = "SubReg") =>
        LET a == before.registers.vn[executed.x]
            b == before.registers.vn[executed.y]
        IN  /\ subtract_with_underflow(a, b) = <<(a - b) % 256, a >= b>>
            /\ registers.vn[15] = (IF a >= b THEN 1 ELSE 0)
            /\ executed.x # 15 => registers.vn[executed.x] = (a - b) % 256

\* C8: SubFrom(x, y) leaves Vx = (old Vy - old Vx) mod 256, computed from the
\* contents of the registers, and VF = 1 if old Vy >= old Vx, else 0.
C8_SubFrom ==
    (Returned /\ executed.op = "SubFrom") =>
        LET a == before.registers.vn[executed.x]
            b == before.registers.vn[executed.y]
        IN  /\ registers.vn[15] = (IF b >= a THEN 1 ELSE 0)
            /\ executed.x # 15 => registers.vn[executed.x] = (b - a) % 256

\* C9: for x other than F, after Lsh(x) VF is the former most significant bit of
\* Vx (0 or 1) and Vx = (old Vx * 2) mod 256; after Rsh(x) VF is the former least
\* significant bit of Vx and Vx = old Vx div 2.
C9_Shifts ==
    (Returned /\ executed.op \in {"Lsh", "Rsh"} /\ executed.x # 15) =>
        LET a == before.registers.vn[executed.x]
        IN  IF executed.op = "Lsh"
            THEN /\ registers.vn[15] = a \div 128
                 /\ registers.vn[executed.x] = (a * 2) % 256
            ELSE /\ registers.vn[15] = a % 2
                 /\ registers.vn[executed.x] = a \div 2

\* The cells Draw(x, y, n) covers, as the engine addresses them: row r of the
\* sprite, bit i
DrawCell(regs, ins, r, i) == index(regs.vn[ins.x] + r, regs.vn[ins.y] + i)

\* Bit 7 - i of byte
SpriteBit(byte, i) == (byte \div Pow2(7 - i)) % 2 = 1

\* C10: every cell a Draw covers becomes (old cell XOR sprite bit), so the same
\* Draw executed twice, with I, Vx, Vy and the sprite bytes unchanged, leaves
\* the display as it was before the first.
C10_DrawXor ==
    (Returned /\ executed.op = "Draw") =>
        LET old == before.registers
            was == before.memory.display
        IN  /\ \A r \in 0..(executed.n - 1), i \in 0..7 :
                (DrawCell(old, executed, r, i) \in memory.display)
                    = ((DrawCell(old, executed, r, i) \in was)
                        # SpriteBit(RamGet(before.memory.ram, old.i + r), i))
            /\ ( /\ earlier.executed = executed
                 /\ earlier.registers.i = old.i
                 /\ earlier.registers.vn = old.vn
                 /\ earlier.ram = before.memory.ram )
                => memory.display = earlier.display

\* The last two do_instruction calls executed the same Draw with the same I,
\* Vx, Vy and sprite bytes
SameDrawTwice ==
    /\ executed.op = "Draw"
    /\ earlier.executed = executed
    /\ earlier.registers.i = before.registers.i
    /\ earlier.registers.vn[executed.x] = before.registers.vn[executed.x]
    /\ earlier.registers.vn[executed.y] = before.registers.vn[executed.y]
    /\ earlier.ram = before.memory.ram

\* The sprite of the executed Draw has at least one set bit
SpriteHasSetBit ==
    \E r \in 0..(executed.n - 1) : RamGet(before.memory.ram, before.registers.i + r) # 0

\* C11: after Draw, VF = 1 if at least one pixel went from on to off during the
\* draw and VF = 0 otherwise: VF = 0 after a draw onto a blank framebuffer, and
\* VF = 1 after the same sprite (with a set bit) is drawn at the same place a
\* second time.
C11_DrawCollision ==
    (Returned /\ executed.op = "Draw") =>
        /\ registers.vn[15] = (IF before.memory.display \ memory.display # {} THEN 1 ELSE 0)
        /\ before.memory.display = {} => registers.vn[15] = 0
        /\ (SameDrawTwice /\ SpriteHasSetBit) => registers.vn[15] = 1

\* The framebuffer cell of the pixel at column col, row row of the 64 x 32 screen
Pixel(col, row) == row * 64 + col

\* The pixels Draw(x, y, n) is to affect: column (Vx + i) mod 64, row (Vy + r) mod 32
DrawPixels(regs, ins) ==
    {Pixel((regs.vn[ins.x] + i) % 64, (regs.vn[ins.y] + r) % 32) :
        r \in 0..(ins.n - 1), i \in 0..7}

\* C12: Draw(x, y, n) completes without an assertion or index failure for every
\* Vx and Vy in 0..255 and every n in 0..15, and changes no pixel outside the
\* pixels at column (Vx + i) mod 64, row (Vy + r) mod 32, r in 0..n-1, i in 0..7.
C12_DrawGeometry ==
    (executed.op = "Draw" /\ before.registers.i + executed.n <= RAM_SIZE) =>
        /\ ~panicked
        /\ \A cell \in (memory.display \ before.memory.display)
                        \cup (before.memory.display \ memory.display) :
                cell \in DrawPixels(before.registers, executed)

\* C13: after BCD(x), ram[I], ram[I+1], ram[I+2] are the hundreds, tens and ones
\* decimal digits of Vx (each in 0..9, 100 * ram[I] + 10 * ram[I+1] + ram[I+2] =
\* Vx); no other memory byte and no register other than pc changes.
C13_BCD ==
    (Returned /\ executed.op = "BCD") =>
        LET i == before.registers.i
            v == before.registers.vn[executed.x]
            d(k) == RamGet(memory.ram, i + k)
        IN  /\ \A k \in 0..2 : d(k) \in 0..9
            /\ 100 * d(0) + 10 * d(1) + d(2) = v
            /\ \A a \in (DOMAIN memory.ram \cup DOMAIN before.memory.ram) \ {i, i + 1, i + 2} :
                    RamGet(memory.ram, a) = RamGet(before.memory.ram, a)
            /\ memory.display = before.memory.display
            /\ registers = [before.registers EXCEPT !.pc = before.registers.pc + 2]

\* ram is the same outside the addresses lo..hi as before the last call
RamSameOutside(lo, hi) ==
    \A a \in (DOMAIN memory.ram \cup DOMAIN before.memory.ram) \ (lo..hi) :
        RamGet(memory.ram, a) = RamGet(before.memory.ram, a)

\* C14: RegDump(x) copies exactly V0..Vx (Vx included) to ram[I..I+x], RegLoad(x)
\* copies ram[I..I+x] into V0..Vx (Vx included); I, the remaining registers and
\* all other memory are unchanged.
C14_RegDumpLoad ==
    LET old == before.registers
        x == executed.x
    IN  /\ (Returned /\ executed.op = "RegDump") =>
            /\ \A r \in 0..x : RamGet(memory.ram, old.i + r) = old.vn[r]
            /\ RamSameOutside(old.i, old.i + x)
            /\ registers = [old EXCEPT !.pc = old.pc + 2]
        /\ (Returned /\ executed.op = "RegLoad") =>
            /\ \A r \in 0..x : registers.vn[r] = RamGet(before.memory.ram, old.i + r)
            /\ \A r \in (x + 1)..15 : registers.vn[r] = old.vn[r]
            /\ registers.i = old.i
            /\ memory.ram = before.memory.ram

\* C15: after WaitForKey(x), key_flag = Some(x); and while key_flag is set and
\* no key is pressed, neither Emulator::step nor a cycle of the run loop executes
\* an instruction: pc, the V registers, I, memory and the display stay unchanged.
C15_WaitBlocks ==
    /\ (Returned /\ executed.op = "WaitForKey") => registers.key_flag = <<executed.x>>
    /\ ( /\ event.kind \in {"step", "cycle"}
         /\ event.flag # <<>>
         /\ event.key = <<>>
         /\ before.memory.keys = {} )
        => /\ executed = NoInstr
           /\ registers = before.registers
           /\ memory = before.memory

\* C16: when key k becomes pressed while key_flag = Some(r), Vr is set to k and
\* key_flag becomes None before the next instruction executes; no other V
\* register is changed by the key press.
C16_KeyWakes ==
    (event.kind = "cycle" /\ event.key # <<>> /\ event.flag # <<>>) =>
        /\ before.registers.key_flag = <<>>
        /\ before.registers.vn = [event.vn EXCEPT ![event.flag[1]] = event.key[1]]

\* C17: a timer tick lowers each of the delay and sound timers by exactly 1 when
\* it is nonzero and leaves it at 0 when it is 0, so both timers stay in 0..255
\* whatever ticks and instructions happen; a tick changes no other state.
C17_TimerTick ==
    /\ registers.delay \in 0..255
    /\ registers.sound \in 0..255
    /\ event.kind = "tick" =>
        LET old == before.registers
        IN  /\ registers.delay = (IF old.delay = 0 THEN 0 ELSE old.delay - 1)
            /\ registers.sound = (IF old.sound = 0 THEN 0 ELSE old.sound - 1)
            /\ registers = [old EXCEPT !.delay = registers.delay, !.sound = registers.sound]
            /\ memory = before.memory

\* C17's case: a tick found one timer running and the other at zero
C17_Witness ==
    /\ event.kind = "tick"
    /\ before.registers.delay > 0
    /\ registers.delay = before.registers.delay - 1
    /\ before.registers.sound = 0
    /\ registers.sound = 0

\* C18: while the engine is blocked waiting for a key, frames keep ending and a
\* nonzero delay or sound timer keeps counting down: a wait that finds a timer
\* running leads to the timer at 0 or to the end of the wait.
C18_TimersRunWhileBlocked ==
    (registers.key_flag # <<>> /\ (registers.delay > 0 \/ registers.sound > 0))
        ~> (registers.key_flag = <<>> \/ (registers.delay = 0 /\ registers.sound = 0))

\* The calls of kind call in the log of the current Running frame
LogCalls(call) == {i \in 1..Len(driver.log) : driver.log[i].call = call}

\* C19: in Running mode every frame of the driver loops starts by clearing the
\* key flags and ticking the timers exactly once, before any key input of the
\* frame is applied and before any instruction of the frame executes; the key
\* flags are not cleared again within the frame, so a key set in the frame is
\* visible to every instruction of the frame executed after it.
C19_FrameStart ==
    driver.pos = "frame" =>
        /\ Len(driver.log) >= 2
        /\ LogCalls("clear_keys") = {1}
        /\ driver.log[1].keys = {}
        /\ LogCalls("tick_timers") = {2}
        /\ \A i \in LogCalls("set_key"), j \in LogCalls("do_instruction") :
                i < j => driver.log[i].key \in driver.log[j].keys

\* C19's case: in one frame a key was set in each of two cycles and an
\* instruction executed after each
C19_Witness ==
    /\ driver.pos = "frame"
    /\ Len(driver.log) >= 6
    /\ driver.log[3].call = "set_key"
    /\ driver.log[4].call = "do_instruction"
    /\ driver.log[5].call = "set_key"
    /\ driver.log[5].key # driver.log[3].key
    /\ driver.log[6].call = "do_instruction"
    /\ driver.log[6].keys = {driver.log[3].key, driver.log[5].key}

\* The statements (instruction and bytes lines) among the first p lines of src
RECURSIVE StatementsIn(_, _)
StatementsIn(src, p) ==
    IF p = 0 THEN 0
    ELSE StatementsIn(src, p - 1) + (IF src[p].rule = "label" THEN 0 ELSE 1)

\* The label lines among the first p lines of src
LabelLinesIn(src, p) == {q \in 1..p : src[q].rule = "label"}

\* The table parse_program returned for tests::test_parse1 is start = 0,
\* loop = 2, end = 5
TestParse1Table ==
    (asm.status = "ok" /\ asm.source = TestParse1) =>
        /\ DOMAIN asm.labels = {"start", "loop", "end"}
        /\ asm.labels["start"] = 0
        /\ asm.labels["loop"] = 2
        /\ asm.labels["end"] = 5

\* C20 as stated: parse_program appends exactly one line per instruction or
\* bytes statement and none per label line, and each label maps to the number
\* of lines appended before it.
C20_LabelTable_AsStated ==
    asm.status \in {"parsing", "ok"} =>
        /\ Len(asm.instructions) = StatementsIn(asm.source, asm.pos)
        /\ \A q \in LabelLinesIn(asm.source, asm.pos) :
                /\ asm.source[q].name \in DOMAIN asm.labels
                /\ asm.labels[asm.source[q].name] = StatementsIn(asm.source, q - 1)
        /\ TestParse1Table

\* C20, amended: parse_program appends exactly one line per instruction or bytes
\* statement and none per label line, and each label maps to the number of
\* lines appended before the last label line that defines it (a label defined
\* again replaces the earlier entry); for tests::test_parse1 the table is
\* start = 0, loop = 2, end = 5.
C20_LabelTable ==
    asm.status \in {"parsing", "ok"} =>
        /\ Len(asm.instructions) = StatementsIn(asm.source, asm.pos)
        /\ DOMAIN asm.labels = {asm.source[q].name : q \in LabelLinesIn(asm.source, asm.pos)}
        /\ \A q \in LabelLinesIn(asm.source, asm.pos) :
                (\A q2 \in LabelLinesIn(asm.source, asm.pos) :
                    asm.source[q2].name = asm.source[q].name => q2 <= q)
                => asm.labels[asm.source[q].name] = StatementsIn(asm.source, q - 1)
        /\ TestParse1Table

\* C20's case: a source with a label before, between and after its statements
\* was parsed to the end
C20_Witness ==
    /\ asm.status = "ok"
    /\ asm.source = TestParse1
    /\ Len(asm.instructions) = 6
    /\ asm.labels["end"] = 5

\* The slots of the Program that carry a reference
Referring == {i \in 1..Len(asm.references) : asm.references[i] # <<>>}

\* The label the slot i refers to
LabelOf(i) == asm.references[i][1]

\* The bytes of the binary taken by the first t lines: 2 for each instruction,
\* its length for each Data block
BytesBelow(t) ==
    2 * Cardinality({j \in 1..t : asm.instructions[j].kind = "Instr"})
    + LET RECURSIVE DataBytes(_)
          DataBytes(j) ==
              IF j = 0 THEN 0
              ELSE DataBytes(j - 1)
                   + (IF asm.instructions[j].kind = "Data" THEN Len(asm.instructions[j].data)
                      ELSE 0)
      IN  DataBytes(t)

\* C21: after fix_references every Call or Jump line that refers to label L
\* has the operand 0x200 + the bytes of the lines below labels[L] (2 per
\* instruction, its length per Data block), for references to labels defined
\* before and after the line alike; in tests::test_parse2 the label after five
\* instructions and a 5-byte Data block resolves to 0x20F.
C21_Resolved ==
    asm.status = "fixed" =>
        /\ \A i \in Referring :
                asm.instructions[i].ins.op \in {"Call", "Jump"} =>
                    asm.instructions[i].ins.n = \h200 + BytesBelow(asm.labels[LabelOf(i)])
        /\ asm.source = TestParse2 =>
                /\ asm.instructions[7] = LineInstr(Ins("Jump", 0, 0, \h20F))
                /\ asm.instructions[8] = LineInstr(Ins("Jump", 0, 0, \h200))

\* C21's case: a jump to a label defined after it, with a Data block between,
\* was resolved
C21_Witness ==
    /\ asm.status = "fixed"
    /\ Len(asm.source) = 3
    /\ asm.source[1].rule = "jump" /\ asm.source[1].name = "a"
    /\ asm.source[2].rule = "bytes"
    /\ asm.source[3] = LabelLine("a")
    /\ asm.instructions[1].ins.n = \h205

\* The 16-bit word of a jump or call to addr
BranchWord(op, addr) == (IF op = "Jump" THEN \h1000 ELSE \h2000) + addr

\* The labels the table defines
Defined == {k \in DOMAIN asm.labels : TRUE}

\* C22: on the text-to-binary path of chip8cc (to_binary) the emitted bytes of
\* every jump or call that targets a label encode the resolved address
\* 0x200 + byte offset of the label, never the placeholder 0 of pass 1.
C22_EmittedResolved ==
    asm.status = "emitted" =>
        \A i \in Referring :
            (asm.instructions[i].ins.op \in {"Call", "Jump"} /\ LabelOf(i) \in Defined) =>
                LET at == BytesBelow(i - 1)
                    word == BranchWord(asm.instructions[i].ins.op,
                                       \h200 + BytesBelow(asm.labels[LabelOf(i)]))
                IN  /\ asm.bytes[at + 1] = word \div 256
                    /\ asm.bytes[at + 2] = word % 256

\* The source line that became the slot i of the Program
StatementAt(i) ==
    asm.source[CHOOSE q \in 1..Len(asm.source) :
                    asm.source[q].rule # "label" /\ StatementsIn(asm.source, q) = i]

\* C23: after parse_program succeeds, references and instructions have the
\* same length and references[i] is Some(label) exactly when instructions[i]
\* is a Call or Jump whose operand in the source was that label; so
\* fix_references never reaches its 'unexpected instruction' failure, whatever
\* statement carries a label operand (the indexed jump included).
C23_CoIndexed ==
    /\ asm.status = "ok" =>
            /\ Len(asm.references) = Len(asm.instructions)
            /\ \A i \in 1..Len(asm.references) :
                    /\ asm.references[i] # <<>> <=>
                            /\ asm.instructions[i].kind = "Instr"
                            /\ asm.instructions[i].ins.op \in {"Call", "Jump"}
                            /\ StatementAt(i).name # ""
                    /\ asm.references[i] # <<>> => LabelOf(i) = StatementAt(i).name
    /\ ~(asm.status = "panic" /\ asm.fault = "unexpected instruction")

\* C24: resolving a program in which a Call or Jump refers to a label that is
\* never defined does not abort (it returns an 'undefined label' error), and
\* no binary is emitted for such a program.
C24_UndefinedLabel ==
    /\ ~(asm.status = "panic" /\ asm.fault = "labels[label]")
    /\ asm.status = "emitted" => \A i \in Referring : LabelOf(i) \in Defined

\* C25: for every Instruction variant, from_mnemonic on the text Display
\* prints for it returns Ok with the same variant and operands.
C25_MnemonicRoundTrip ==
    tool.op = "reparsed" => (tool.result.res = "Ok" /\ tool.result.ins = tool.ins)

\* C26: from_mnemonic never aborts: whatever the text, a missing operand or an
\* unparsable numeral yields Err with the mnemonic and a message, and so does
\* an unknown keyword.
C26_NeverAborts ==
    tool.op \in {"parsed", "reparsed"} =>
        /\ tool.result.res \in {"Ok", "Err"}
        /\ tool.result.res = "Err" => (tool.result.mnemonic # <<>> /\ tool.result.message # "")

\* A part that names a register: v or V and a number up to 15
RegisterName(part) == part.sym = "v" /\ part.val <= 15

\* A part that is a number of a byte
ByteNumber(part) == part.sym = "#" /\ part.val <= 255

\* The register and the immediate variant of the shared keywords
RegVariant == [se |-> "SkipEqReg", sne |-> "SkipNeReg", add |-> "AddReg", ld |-> "SetReg"]

ImmVariant == [se |-> "SkipEqImm", sne |-> "SkipNeImm", add |-> "AddImm", ld |-> "SetImm"]

\* C27: for se, sne, add and ld, from_mnemonic selects the register variant
\* exactly when the second operand is a register name (either case) and the
\* immediate variant when it is a number; add i vx gives AddMemPtr(x),
\* jp addr gives Jump(addr) and jp v0 addr gives JumpOffset(addr).
C27_OperandShape ==
    tool.op = "parsed" =>
        LET t == tool.text
            kw == t[1].sym
            r == tool.result
        IN  /\ (kw \in {"se", "sne", "add", "ld"} /\ Len(t) = 3 /\ RegisterName(t[2])) =>
                    /\ RegisterName(t[3]) => r = MOk(Ins(RegVariant[kw], t[2].val, t[3].val, 0))
                    /\ ByteNumber(t[3]) => r = MOk(Ins(ImmVariant[kw], t[2].val, 0, t[3].val))
            /\ (kw = "add" /\ Len(t) = 3 /\ t[2].sym = "i" /\ RegisterName(t[3])) =>
                    r = MOk(Ins("AddMemPtr", t[3].val, 0, 0))
            /\ (kw = "jp" /\ Len(t) = 2 /\ t[2].sym = "#") => r = MOk(Ins("Jump", 0, 0, t[2].val))
            /\ (kw = "jp" /\ Len(t) = 3 /\ t[2] = Part("v", FALSE, 0) /\ t[3].sym = "#") =>
                    r = MOk(Ins("JumpOffset", 0, 0, t[3].val))

\* The places <<line, k>> of the mnemonics of the text that are not empty
Mnemonics == {p \in (1..Len(tool.lines)) \X (1..LaMaxMnemonics) :
                p[2] <= Len(tool.lines[p[1]]) /\ tool.lines[p[1]][p[2]] # EmptyText}

\* The place p is before the place q in the text
Before(p, q) == p[1] < q[1] \/ (p[1] = q[1] /\ p[2] < q[2])

\* The mnemonic at the place p, without the white space around it
MnemonicAt(p) == trim(tool.lines[p[1]][p[2]])

\* The mnemonics of the text that do not parse
Failing == {p \in Mnemonics : from_mnemonic(MnemonicAt(p)).res # "Ok"}

\* C28: the to_binary of the line assembler stops at the first mnemonic that
\* does not parse and returns an error with that mnemonic and the 0-based index
\* of its line (reported as index + 1) and no words, and assemble then creates
\* and writes no output; when every mnemonic parses it returns one word for
\* each mnemonic that is not empty, in the order of the source.
C28_ToBinary ==
    tool.op = "assembled" =>
        IF Failing = {}
        THEN /\ tool.binary.res = "Ok"
             /\ Len(tool.binary.words) = Cardinality(Mnemonics)
             /\ \A p \in Mnemonics :
                    tool.binary.words[Cardinality({q \in Mnemonics : Before(q, p)}) + 1]
                        = InstructionToU16(from_mnemonic(MnemonicAt(p)).ins)
             /\ tool.created
             /\ Len(tool.written) = 2 * Cardinality(Mnemonics)
        ELSE LET p == CHOOSE p \in Failing : \A q \in Failing : ~Before(q, p)
             IN  /\ tool.binary.res = "Err"
                 /\ tool.binary.mnemonic \in {MnemonicAt(p), to_ascii_lowercase(MnemonicAt(p))}
                 /\ tool.binary.line_number = p[1] - 1
                 /\ tool.reported = p[1]
                 /\ tool.binary.words = <<>>
                 /\ ~tool.created
                 /\ tool.written = <<>>

\* The words of the binary given to disassemble
InputWord(k) == tool.input[2 * k - 1] * 256 + tool.input[2 * k]

InputWords == 1..(Len(tool.input) \div 2)

\* The words that decode to Nop
NopWords == {k \in InputWords : InstructionFromU16(InputWord(k)).op = "Nop"}

\* The words before the first that decodes to Nop
Emitted == {k \in InputWords : \A j \in NopWords : k < j}

\* C29: disassemble emits, in the order of the input, one mnemonic for each
\* 2-byte big-endian word before the first word that decodes to Nop (for all
\* words when none does) and nothing for that word or a later one; an odd last
\* byte is ignored.
C29_Disassemble ==
    tool.op = "disassembled" =>
        /\ Len(tool.written) = Cardinality(Emitted)
        /\ \A k \in Emitted : tool.written[k] = Display(InstructionFromU16(InputWord(k)))

\* C29's case: the second of three words decodes to Nop, the third does not,
\* and only the first was emitted
C29_Witness ==
    /\ tool.op = "disassembled"
    /\ Len(tool.input) = 6
    /\ NopWords = {2}
    /\ Len(tool.written) = 1
    /\ tool.written[1][1].sym = "jmp"

\* C30: SetChar(x), SkipKey(x) and SkipNoKey(x) complete without an assertion
\* or index failure for every value 0..255 of Vx, the glyph and the key index
\* being Vx mod 16: SetChar sets I = 5 * (Vx mod 16) and the skips test the key
\* Vx mod 16.
C30_IndexModulo ==
    executed.op \in {"SetChar", "SkipKey", "SkipNoKey"} =>
        LET v == before.registers.vn[executed.x] % 16
            pc == before.registers.pc
        IN  /\ ~panicked
            /\ executed.op = "SetChar" => registers.i = 5 * v
            /\ executed.op = "SkipKey" =>
                    registers.pc = pc + (IF v \in memory.keys THEN 4 ELSE 2)
            /\ executed.op = "SkipNoKey" =>
                    registers.pc = pc + (IF v \notin memory.keys THEN 4 ELSE 2)

\* C31: for every 16-bit word that decodes to a variant other than Nop,
\* encoding the decoded instruction gives the word back.
C31_EncodeDecode ==
    (codec.op = "decode_encode" /\ codec.outIns.op # "Nop") => codec.outWord = codec.inWord

\* C32: Call(a) executed at pc = P writes P big-endian into ram[sp-1..sp], then
\* lowers sp by 2 and sets pc = a; Ret raises sp by 2 and sets pc to the 16-bit
\* value read from ram[sp-1..sp] at the new sp; so from sp = 0x1FF one Call
\* gives sp = 0x1FD and the matching Ret gives sp = 0x1FF again with pc the
\* address the Call pushed.
C32_CallRetStack ==
    /\ (Returned /\ executed.op = "Call") =>
            LET P == before.registers.pc
                sp == before.registers.sp
            IN  /\ RamGet(memory.ram, sp - 1) = P \div 256
                /\ RamGet(memory.ram, sp) = P % 256
                /\ registers.sp = sp - 2
                /\ registers.pc = executed.n
                /\ sp = \h1FF => registers.sp = \h1FD
    /\ (Returned /\ executed.op = "Ret") =>
            /\ registers.sp = before.registers.sp + 2
            /\ registers.pc = RamGet(memory.ram, registers.sp - 1) * 256
                               + RamGet(memory.ram, registers.sp)
            /\ (calls.matched # <<>> /\ calls.matched[1].sp = \h1FF) =>
                    /\ registers.sp = \h1FF
                    /\ registers.pc = calls.matched[1].at

\* C32's case: the Ret matching a Call made with sp = 0x1FF has returned
C32_Witness ==
    /\ Returned
    /\ executed.op = "Ret"
    /\ calls.matched # <<>>
    /\ calls.matched[1].sp = \h1FF
    /\ before.registers.sp = \h1FD
    /\ registers.pc = calls.matched[1].at

\* C33: for every loaded ROM, in every state reached by repeated steps
\* pc <= 4094, so the fetch of ram[pc] and ram[pc + 1] is never out of bounds,
\* also when execution goes on through zero or unknown words past the ROM and
\* after an indexed jump.
C33_PcInRam ==
    /\ registers.pc <= RAM_SIZE - 2
    /\ ~(panicked /\ ~fetch_ok(before.registers))

\* C34: the call stack never overwrites other data: over any sequence of Call
\* and Ret, at any depth, Call modifies neither the glyph bytes
\* ram[0x000..0x04F] nor a byte at 0x200 or above, and sp stays within
\* 0x001..0x1FF.
C34_StackApart ==
    /\ registers.sp \in 1..\h1FF
    /\ executed.op = "Call" =>
            \A a \in DOMAIN memory.ram \cup DOMAIN before.memory.ram :
                (a <= \h4F \/ a >= \h200) =>
                    RamGet(memory.ram, a) = RamGet(before.memory.ram, a)

\* The engine waits for a key
Waiting == registers.key_flag # <<>> /\ ~panicked

\* The front end has reported a key to a cycle that found the engine waiting
KeyReported == event.kind = "cycle" /\ event.key # <<>> /\ event.flag # <<>>

\* The wait has ended: key_flag was cleared and the instruction after the
\* WaitForKey, the one at the pc the wait was left at, was executed
Resumed ==
    /\ event.kind = "cycle"
    /\ before.registers.key_flag = <<>>
    /\ executed # NoInstr
    /\ executed = get_instruction(before.memory, before.registers)
    /\ InstructionFromU16(RamGet(before.memory.ram, before.registers.pc - 2) * 256
                          + RamGet(before.memory.ram, before.registers.pc - 1)).op = "WaitForKey"

\* C35: the key wait never deadlocks: if the engine is waiting for a key and
\* the front end eventually reports a key press, then key_flag is eventually
\* cleared and the instruction following the WaitForKey is eventually executed.
C35_KeyWaitEnds == []((Waiting /\ <>KeyReported) => <>Resumed)

C35_Witness ==
    /\ KeyReported
    /\ Resumed
    /\ executed.op = "GetDelay"
    /\ registers.key_flag = <<>>
    /\ earlier.executed = NoInstr

\* C36: get_bit(byte, i) is true exactly when bit 7 - i of byte is set, for
\* every byte and every i in 0..7, so set_row transfers all eight bits of a
\* sprite byte to the display: here for the bytes of the sprite a Draw has
\* drawn, and the cells of its last row.
C36_GetBit ==
    (Returned /\ executed.op = "Draw" /\ executed.n > 0) =>
        LET old == before.registers
            last == executed.n - 1
        IN  /\ \A r \in 0..last, i \in 0..7 :
                    get_bit(RamGet(before.memory.ram, old.i + r), i)
                        = SpriteBit(RamGet(before.memory.ram, old.i + r), i)
            /\ \A i \in 0..7 :
                    (DrawCell(old, executed, last, i) \in memory.display)
                        = SpriteBit(RamGet(before.memory.ram, old.i + last), i)

\* A statement whose operands fit the instruction word: registers v0..vf, an
\* 8-bit number, a 4-bit height, a 12-bit address
WellFormed(l) ==
    /\ l.rule # "label"
    /\ \A t \in {l.a0, l.a1, l.a2} : t.rule = "register" => t.val \in 0..15
    /\ l.rule = "drw" => l.a2.val \in 0..15
    /\ l.rule = "ldmem" => l.a0.val \in 0..\hFFF
    /\ l.rule \notin {"drw", "ldmem"} =>
            \A t \in {l.a0, l.a1, l.a2} : t.rule = "number" => t.val \in 0..255
    /\ l.addr \in 0..\hFFF

\* The variant the Instruction enum documents for the mnemonic of a statement;
\* second is the rule of the second operand, which tells the forms of add, se
\* and sne apart (none: ADD I Vx)
DocumentedVariant(rule, second) ==
    CASE rule = "cls" -> "ClearScreen"
      [] rule = "ret" -> "Ret"
      [] rule = "nop" -> "Nop"
      [] rule = "call" -> "Call"
      [] rule = "jump" -> "Jump"
      [] rule = "jpoff" -> "JumpOffset"
      [] rule = "add" ->
            IF second = "none" THEN "AddMemPtr" ELSE IF second = "number" THEN "AddImm" ELSE "AddReg"
      [] rule = "se" -> IF second = "number" THEN "SkipEqImm" ELSE "SkipEqReg"
      [] rule = "sne" -> IF second = "number" THEN "SkipNeImm" ELSE "SkipNeReg"
      [] rule = "sub" -> "SubReg"
      [] rule = "or" -> "OrReg"
      [] rule = "and" -> "AndReg"
      [] rule = "xor" -> "XorReg"
      [] rule = "subn" -> "SubFrom"
      [] rule = "rnd" -> "Rand"
      [] rule = "drw" -> "Draw"
      [] rule = "rsh" -> "Rsh"
      [] rule = "lsh" -> "Lsh"
      [] rule = "skp" -> "SkipKeyPressed"
      [] rule = "sknp" -> "SkipKeyNotPressed"
      [] rule = "ldchar" -> "SetChar"
      [] rule = "bcd" -> "BCD"
      [] rule = "ldmem" -> "SetMemPtr"
      [] rule = "setdelay" -> "SetDelay"
      [] rule = "getdelay" -> "GetDelay"
      [] rule = "setsound" -> "SetSound"
      [] rule = "regdmp" -> "RegDump"
      [] rule = "regload" -> "RegLoad"
      [] rule = "setreg" -> "SetReg"
      [] rule = "setimm" -> "SetImm"
      [] OTHER -> "Data"

\* The variant of a parsed line
VariantOf(line) == IF line.kind = "Data" THEN "Data" ELSE line.ins.op

\* C37: parse_instruction yields, for every statement kind it dispatches, the
\* variant documented for the mnemonic, and never an error or another variant
\* for a well-formed statement: regdmp yields RegDump(x), regload RegLoad(x),
\* `rnd vx nn` Rand(x, nn).
C37_DocumentedVariant ==
    /\ asm.status = "err" => ~WellFormed(asm.source[asm.pos + 1])
    /\ ( /\ asm.status \in {"parsing", "ok"}
         /\ asm.pos > 0
         /\ WellFormed(asm.source[asm.pos]) ) =>
            LET l == asm.source[asm.pos]
                line == asm.instructions[Len(asm.instructions)]
            IN  /\ VariantOf(line) = DocumentedVariant(l.rule, l.a1.rule)
                /\ l.rule \in {"regdmp", "regload"} => line.ins.x = l.a0.val
                /\ l.rule = "rnd" => (line.ins.x = l.a0.val /\ line.ins.n = l.a1.val)

\* The bits of the instruction word that hold the operands of a variant
OperandBits(op) ==
    CASE op \in {"Nop", "ClearScreen", "Ret"} -> \h0000
      [] op \in {"Jump", "Call", "SetMemPtr", "JumpOffset", "SkipEqImm", "SkipNeImm", "SetImm",
                 "AddImm", "Rand", "Draw"} -> \h0FFF
      [] op \in {"SkipEqReg", "SetReg", "OrReg", "AndReg", "XorReg", "AddReg", "SubReg",
                 "SubFrom", "SkipNeReg"} -> \h0FF0
      [] OTHER -> \h0F00

\* The widest immediate of a variant: 12 bits of address, 4 bits of height,
\* 8 bits otherwise
ImmediateMax(op) ==
    IF op \in {"Jump", "Call", "SetMemPtr", "JumpOffset"} THEN \hFFF
    ELSE IF op = "Draw" THEN \hF
    ELSE \hFF

\* The operands of an instruction fit their fields, and in its encoded word
\* the class nibble and the selector bits are those of its variant
FieldsKept(ins) ==
    /\ ins.x \in 0..15
    /\ ins.y \in 0..15
    /\ ins.n \in 0..ImmediateMax(ins.op)
    /\ BitAnd(InstructionToU16(ins), \hFFFF - OperandBits(ins.op))
            = InstructionToU16(Ins(ins.op, 0, 0, 0))

\* C38: every instruction the assemblers accept has register operands in
\* 0..15 and immediates within their 4-, 8- or 12-bit field, so in its encoded
\* word the class nibble and the selector bits are those of its variant: here
\* for the programs of parse_program, before and after fix_references.
C38_OperandsInField ==
    asm.status \in {"ok", "fixed", "emitted"} =>
        \A i \in 1..Len(asm.instructions) :
            asm.instructions[i].kind = "Instr" => FieldsKept(asm.instructions[i].ins)

\* C39: fix_references changes only the immediate operand of the lines that
\* carry a reference: the number and order of lines, every Data block and
\* every instruction without a reference are unchanged, and a second run
\* yields the same program as the first.
C39_FixReferencesFrame ==
    asm.runs > 0 =>
        /\ Len(asm.instructions) = Len(asm.unfixed)
        /\ \A i \in 1..Len(asm.unfixed) :
                LET new == asm.instructions[i]
                    old == asm.unfixed[i]
                IN  /\ (asm.references[i] = <<>> \/ old.kind = "Data") => new = old
                    /\ new.kind = old.kind
                    /\ new.data = old.data
                    /\ new.ins.op = old.ins.op
                    /\ new.ins.x = old.ins.x
                    /\ new.ins.y = old.ins.y
        /\ (asm.runs >= 2 /\ asm.status = "fixed") => asm.instructions = asm.unfixed

\* fix_references has run twice on the program of test_parse2, whose jumps
\* over the Data block it had resolved to 0x20F and 0x200
C39_Witness ==
    /\ asm.runs = 2
    /\ asm.status = "fixed"
    /\ asm.source = TestParse2
    /\ asm.instructions[7] = LineInstr(Ins("Jump", 0, 0, \h20F))
    /\ asm.instructions[8] = LineInstr(Ins("Jump", 0, 0, \h200))
    /\ asm.instructions[6] = LineData(<<1, 2, 3, 4, 5>>)
    /\ asm.unfixed = asm.instructions

\* The word at the start of the loaded ROM
RomWord(ram) == RamGet(ram, \h200) * 256 + RamGet(ram, \h201)

\* C40: in the engine's own codec WaitForKey(x) encodes to 0xFX0A, the word
\* that decodes back to WaitForKey(x), so a ROM built by encoding
\* WaitForKey(x) makes the engine wait for a key when executed.
C40_WaitForKeyWord ==
    \A x \in RegSelX :
        LET ins == Ins("WaitForKey", x, 0, 0)
            word == LibInstructionToU16(ins)
        IN  (phase = "loaded" /\ RomWord(memory.ram) = word) =>
                /\ word = \hF00A + x * 256
                /\ LibInstructionFromU16(word) = ins
                /\ (Returned /\ before.registers.pc = \h200 /\ RomWord(before.memory.ram) = word) =>
                        (executed = ins /\ registers.key_flag = <<x>>)

====
